---- MODULE Spec2Model ----
(***************************************************************************)
(* A model of target/riscv/cpu_helper.c: the interrupt arbiter, the        *)
(* background-register swap, the atomic update of mip, the page-table      *)
(* walker, the TLB-fill entry point and the trap dispatcher of a RISC-V    *)
(* hart (RV64 build, system emulation).                                    *)
(*                                                                         *)
(* A target_ulong is modelled as the set of the positions of its 1 bits,   *)
(* so that and/or/not/shift are computed bit for bit at full width.        *)
(***************************************************************************)
EXTENDS Integers, Sequences, FiniteSets, TLC

VARIABLES
    env,      \* the hart: CPURISCVState, with cs->exception_index and the queued async work
    pre,      \* the hart as it was when the last operation was entered
    op,       \* the last operation and its arguments / return value
    steps,    \* operations performed so far
    thr,      \* per-thread locals of the concurrent riscv_cpu_update_mip calls
    hist,     \* the order in which the compare-and-swaps of update_mip took effect
    wk,       \* locals of the running get_physical_address
    mem,      \* guest-physical memory holding the page tables
    writes    \* stores to the page tables made by other harts so far

vars == <<env, pre, op, steps, thr, hist, wk, mem, writes>>

---------------------------------------------------------------------------
(* Machine words                                                           *)

TARGET_LONG_BITS == 64

AllOnes == 0 .. (TARGET_LONG_BITS - 1)

Zero == {}

And(a, b) == a \cap b

Or(a, b) == a \cup b

Not(a) == AllOnes \ a

Shl(a, n) == {i + n : i \in a} \cap AllOnes

Shr(a, n) == {i - n : i \in {j \in a : j >= n}}

\* -flag for a flag that is 0 or 1: all ones or zero
Neg(flag) == IF flag THEN AllOnes ELSE Zero

\* the word holding a small natural number
Bits(n) == {i \in 0 .. 30 : (n \div (2 ^ i)) % 2 = 1}

RECURSIVE Val(_)
\* the number a word holds (words below 2^31 only)
Val(w) == IF w = {} THEN 0
          ELSE LET i == CHOOSE x \in w : TRUE IN (2 ^ i) + Val(w \ {i})

\* a + b modulo 2^TARGET_LONG_BITS, by ripple carry
Add(a, b) ==
    LET carry[i \in 0 .. TARGET_LONG_BITS] ==
            IF i = 0 THEN FALSE
            ELSE LET x == (i - 1) \in a
                     y == (i - 1) \in b
                     c == carry[i - 1]
                 IN  (x /\ y) \/ (x /\ c) \/ (y /\ c)
    IN  {i \in AllOnes : ((i \in a) # (i \in b)) # carry[i]}

ctz64(w) == CHOOSE i \in w : \A j \in w : i <= j

get_field(reg, mask) == Shr(And(reg, mask), ctz64(mask))

set_field(reg, mask, val) == Or(And(reg, Not(mask)), And(Shl(val, ctz64(mask)), mask))

Bool(b) == IF b THEN {0} ELSE Zero

---------------------------------------------------------------------------
(* Constants of the RISC-V privileged architecture used by cpu_helper.c    *)

PRV_U == 0
PRV_S == 1
PRV_H == 2
PRV_M == 3

PRIV_VERSION_1_09_1 == 67841
PRIV_VERSION_1_10_0 == 69632

MSTATUS_UIE  == {0}
MSTATUS_SIE  == {1}
MSTATUS_MIE  == {3}
MSTATUS_SPIE == {5}
MSTATUS_MPIE == {7}
MSTATUS_SPP  == {8}
MSTATUS_MPP  == {11, 12}
MSTATUS_FS   == {13, 14}
MSTATUS_MPRV == {17}
MSTATUS_PUM  == {18}
MSTATUS_SUM  == {18}
MSTATUS_MXR  == {19}
MSTATUS_VM   == {24, 25, 26, 27, 28}
MSTATUS64_UXL == {32, 33}
MSTATUS_MTL  == {38}
MSTATUS_MPV  == {39}
SSTATUS_SPP  == {8}

HSTATUS_STL  == {6}
HSTATUS_SPV  == {7}
HSTATUS_SP2P == {8}
HSTATUS_SP2V == {9}

MIP_SSIP == {1}
MIP_STIP == {5}
MIP_SEIP == {9}
MIE_SSIE == {1}
MIE_STIE == {5}
MIE_SEIE == {9}

VIRT_MODE_SHIFT == 0
VIRT_MODE_MASK == {0}
VIRT_ON == {0}
FORCE_HS_EXCEP_SHIFT == 1
FORCE_HS_EXCEP_MASK == {1}
FORCE_HS_EXCEP == {0}

RISCV_EXCP_INST_ADDR_MIS == 0
RISCV_EXCP_INST_ACCESS_FAULT == 1
RISCV_EXCP_LOAD_ADDR_MIS == 4
RISCV_EXCP_LOAD_ACCESS_FAULT == 5
RISCV_EXCP_STORE_AMO_ADDR_MIS == 6
RISCV_EXCP_STORE_AMO_ACCESS_FAULT == 7
RISCV_EXCP_U_ECALL == 8
RISCV_EXCP_HS_ECALL == 9
RISCV_EXCP_VS_ECALL == 10
RISCV_EXCP_M_ECALL == 11
RISCV_EXCP_INST_PAGE_FAULT == 12
RISCV_EXCP_LOAD_PAGE_FAULT == 13
RISCV_EXCP_STORE_PAGE_FAULT == 15

\* cs->exception_index is a 32-bit int: bit 31 flags an interrupt, -1 is "none"
RISCV_EXCP_INT_FLAG == {31}
RISCV_EXCP_INT_MASK == 0 .. 30
EXCP_NONE == 0 .. 31

---------------------------------------------------------------------------
(* Hart state helpers                                                      *)

riscv_has_ext_RVH(e) == e.rvh

riscv_cpu_mmu_index(e) == e.priv

riscv_cpu_virt_enabled(e) ==
    IF ~riscv_has_ext_RVH(e) THEN FALSE
    ELSE Shr(And(e.virt, VIRT_MODE_MASK), VIRT_MODE_SHIFT) = VIRT_ON

riscv_cpu_set_virt_enabled(e, enable) ==
    IF ~riscv_has_ext_RVH(e) THEN e
    ELSE LET flush == Shr(And(e.virt, VIRT_MODE_MASK), VIRT_MODE_SHIFT) # Bool(enable)
         IN  [e EXCEPT !.tlb = IF flush THEN {} ELSE @,
                       !.virt = Or(And(@, Not(VIRT_MODE_MASK)),
                                   Shl(Bool(enable), VIRT_MODE_SHIFT))]

riscv_cpu_force_hs_excep_enabled(e) ==
    IF ~riscv_has_ext_RVH(e) THEN FALSE
    ELSE Shr(And(e.virt, FORCE_HS_EXCEP_MASK), FORCE_HS_EXCEP_SHIFT) = FORCE_HS_EXCEP

riscv_cpu_set_force_hs_excep(e, enable) ==
    IF ~riscv_has_ext_RVH(e) THEN e
    ELSE [e EXCEPT !.virt = Or(And(@, Not(FORCE_HS_EXCEP_MASK)),
                               Shl(Bool(enable), FORCE_HS_EXCEP_SHIFT))]

riscv_cpu_fp_enabled(e) ==
    IF And(e.mstatus, MSTATUS_FS) # Zero
    THEN ~(riscv_cpu_virt_enabled(e) /\ And(e.vsstatus, MSTATUS_FS) = Zero)
    ELSE FALSE

\* mutant: the reservation is only dropped when the privilege changes
riscv_cpu_set_mode_KeepRes(e, newpriv) ==
    LET p == IF newpriv = PRV_H THEN PRV_U ELSE newpriv
    IN  [e EXCEPT !.priv = p,
                  !.load_res = IF p = e.priv THEN @ ELSE AllOnes]

\* newpriv <= PRV_M is asserted by the code: callers pass U, S, H or M
riscv_cpu_set_mode(e, newpriv) ==
    [e EXCEPT !.priv = IF newpriv = PRV_H THEN PRV_U ELSE newpriv,
              !.load_res = AllOnes]

U32(w) == w \cap (0 .. 31)

\* the value the compare-and-swap of riscv_cpu_update_mip installs
update_mip_new(old, mask, value) == Or(And(old, Not(mask)), And(value, mask))

\* mutant: the new value is stored without comparing mip with the value read
update_mip_cas_PlainStore(cur, old, mask, value) ==
    LET new == update_mip_new(old, mask, value)
    IN  [mip |-> new, new |-> new, cmp |-> old]

\* one pass of the do-while loop: the compare-and-swap of mip against the
\* value last read; cmp is what atomic_cmpxchg returns
update_mip_cas(cur, old, mask, value) ==
    LET new == update_mip_new(old, mask, value)
    IN  [mip |-> IF cur = old THEN new ELSE cur, new |-> new, cmp |-> cur]

\* the queued work item, run on the hart's own thread: CPU_INTERRUPT_HARD is
\* raised or reset after the mip value the item carries
riscv_cpu_update_mip_irqs_async(e, new_mip) ==
    [e EXCEPT !.interrupt_hard = new_mip # Zero]

\* riscv_cpu_update_mip run to completion with no other thread in between:
\* mip is replaced and the notification is queued for the hart's thread
riscv_cpu_update_mip(e, mask, value) ==
    LET new == update_mip_new(e.mip, U32(mask), U32(value))
    IN  [e EXCEPT !.mip = new, !.work = Append(@, new)]

mstatus_mask ==
    MSTATUS_MXR \cup MSTATUS_SUM \cup MSTATUS_FS \cup MSTATUS_SPP \cup
    MSTATUS_SPIE \cup MSTATUS_SIE \cup MSTATUS64_UXL

\* mutant: the software-interrupt enable is left out of the swap
sie_mask_NoSSIE == MIE_SEIE \cup MIE_STIE

sie_mask == MIE_SEIE \cup MIE_STIE \cup MIE_SSIE

sip_mask == MIP_SSIP \cup MIP_STIP \cup MIP_SEIP

\* the registers only the hart's own thread touches change places
swap_plain_regs(e) ==
    [e EXCEPT
       !.vsstatus = And(e.mstatus, mstatus_mask),
       !.mstatus = Or(And(e.mstatus, Not(mstatus_mask)),
                      And(e.vsstatus, mstatus_mask)),
       !.vsie = And(e.mie, sie_mask),
       !.mie = Or(And(e.mie, Not(sie_mask)), And(e.vsie, sie_mask)),
       !.vstvec = e.stvec,       !.stvec = e.vstvec,
       !.vsscratch = e.sscratch, !.sscratch = e.vsscratch,
       !.vsepc = e.sepc,         !.sepc = e.vsepc,
       !.vscause = e.scause,     !.scause = e.vscause,
       !.vstval = e.sbadaddr,    !.sbadaddr = e.vstval,
       !.vsatp = e.satp,         !.satp = e.vsatp]

\* requires RVH (g_assert)
riscv_cpu_swap_background_regs(e) ==
    LET e1 == swap_plain_regs(e)
        old == e1.mip
        e2 == riscv_cpu_update_mip(e1, sip_mask, e1.vsip)
    IN  [e2 EXCEPT !.vsip = And(old, sip_mask)]

\* mutant: the mask is merged into miclaim without the ownership test
riscv_cpu_claim_interrupts_NoTest(e, interrupts) ==
    [ret |-> 0, env |-> [e EXCEPT !.miclaim = Or(@, interrupts)]]

riscv_cpu_claim_interrupts(e, interrupts) ==
    IF And(e.miclaim, interrupts) # Zero
    THEN [ret |-> -1, env |-> e]
    ELSE [ret |-> 0, env |-> [e EXCEPT !.miclaim = Or(@, interrupts)]]

---------------------------------------------------------------------------
(* The interrupt arbiter                                                   *)

irq_mie(e) == e.priv < PRV_M \/ (e.priv = PRV_M /\ get_field(e.mstatus, MSTATUS_MIE) # Zero)

\* mutant: S-mode interrupts are taken in S-mode whatever mstatus.SIE says
irq_sie_NoSIE(e) == e.priv <= PRV_S

irq_sie(e) == e.priv < PRV_S \/ (e.priv = PRV_S /\ get_field(e.mstatus, MSTATUS_SIE) # Zero)

irq_vsie(e) == e.priv < PRV_S \/ (e.priv = PRV_S /\ get_field(e.vsstatus, MSTATUS_SIE) # Zero)

irq_pending(e) == And(e.mip, e.mie)

irq_hspending(e) == And(e.vsip, e.vsie)

irq_irqs(e) ==
    Or(And(And(irq_pending(e), Not(e.mideleg)), Neg(irq_mie(e))),
       And(And(irq_pending(e), e.mideleg), Neg(irq_sie(e))))

\* mutant: the HS-pending set is not gated by the vsie predicate
irq_pending_hs_irq_Ungated(e) == irq_hspending(e)

irq_pending_hs_irq(e) == And(irq_hspending(e), Neg(irq_vsie(e)))

\* mutant: forceHS is set whenever virt is on, pending HS interrupt or not
riscv_cpu_local_irq_pending_AlwaysForce(e) ==
    LET f == IF riscv_cpu_virt_enabled(e)
             THEN riscv_cpu_set_force_hs_excep(e, TRUE) ELSE e
    IN  IF riscv_cpu_virt_enabled(e) /\ irq_pending_hs_irq(e) # Zero
        THEN [ret |-> ctz64(irq_pending_hs_irq(e)), env |-> f]
        ELSE IF irq_irqs(e) # Zero
             THEN [ret |-> ctz64(irq_irqs(e)), env |-> f]
             ELSE [ret |-> -1, env |-> f]

\* returns the interrupt number, or -1 (EXCP_NONE), and the hart it leaves
riscv_cpu_local_irq_pending(e) ==
    IF riscv_cpu_virt_enabled(e) /\ irq_pending_hs_irq(e) # Zero
    THEN [ret |-> ctz64(irq_pending_hs_irq(e)),
          env |-> riscv_cpu_set_force_hs_excep(e, TRUE)]
    ELSE IF irq_irqs(e) # Zero
         THEN [ret |-> ctz64(irq_irqs(e)), env |-> e]
         ELSE [ret |-> -1, env |-> e]

---------------------------------------------------------------------------
(* The trap dispatcher                                                     *)

trap_async(e) == And(e.exception_index, RISCV_EXCP_INT_FLAG) # Zero

trap_code(e) == Val(And(e.exception_index, RISCV_EXCP_INT_MASK))

trap_deleg(e) == IF trap_async(e) THEN e.mideleg ELSE e.medeleg

\* tval: badaddr for the traps that carry an address, 0 otherwise
trap_tval(e) ==
    IF ~trap_async(e) /\
       trap_code(e) \in {RISCV_EXCP_INST_ADDR_MIS, RISCV_EXCP_INST_ACCESS_FAULT,
                         RISCV_EXCP_LOAD_ADDR_MIS, RISCV_EXCP_STORE_AMO_ADDR_MIS,
                         RISCV_EXCP_LOAD_ACCESS_FAULT, RISCV_EXCP_STORE_AMO_ACCESS_FAULT,
                         RISCV_EXCP_INST_PAGE_FAULT, RISCV_EXCP_LOAD_PAGE_FAULT,
                         RISCV_EXCP_STORE_PAGE_FAULT}
    THEN e.badaddr
    ELSE Zero

\* mutant: an ecall from S-mode is never told apart by virt
ecall_cause_NoVirt(e) ==
    IF e.priv = PRV_M THEN RISCV_EXCP_M_ECALL
    ELSE IF e.priv = PRV_S THEN RISCV_EXCP_HS_ECALL
    ELSE RISCV_EXCP_U_ECALL

\* ecall is dispatched as one cause: translate it by the mode it came from
ecall_cause(e) ==
    IF e.priv = PRV_M THEN RISCV_EXCP_M_ECALL
    ELSE IF e.priv = PRV_S /\ riscv_cpu_virt_enabled(e) THEN RISCV_EXCP_VS_ECALL
    ELSE IF e.priv = PRV_S /\ ~riscv_cpu_virt_enabled(e) THEN RISCV_EXCP_HS_ECALL
    ELSE RISCV_EXCP_U_ECALL

trap_cause(e) ==
    IF ~trap_async(e) /\ trap_code(e) = RISCV_EXCP_U_ECALL
    THEN ecall_cause(e)
    ELSE trap_code(e)

\* mutant: a delegated trap goes to S-mode from any privilege
trap_to_S_AnyPriv(e) ==
    /\ trap_cause(e) < TARGET_LONG_BITS
    /\ trap_cause(e) \in trap_deleg(e)

\* the trap is handled in S-mode
trap_to_S(e) ==
    /\ e.priv <= PRV_S
    /\ trap_cause(e) < TARGET_LONG_BITS
    /\ trap_cause(e) \in trap_deleg(e)

trap_hdeleg(e) == IF trap_async(e) THEN e.hideleg ELSE e.hedeleg

\* with the H extension: the trap stays in VS
trap_to_VS(e, cause) ==
    /\ riscv_cpu_virt_enabled(e)
    /\ cause \in trap_hdeleg(e)
    /\ ~riscv_cpu_force_hs_excep_enabled(e)

\* mutant: SPV is left as it was
hstatus_on_hs_trap_NoSPV(e) ==
    LET h1 == set_field(e.hstatus, HSTATUS_SP2V, get_field(e.hstatus, HSTATUS_SPV))
    IN  set_field(h1, HSTATUS_SP2P, get_field(e.mstatus, SSTATUS_SPP))

\* the three hstatus fields written on a trap into HS
hstatus_on_hs_trap(e) ==
    LET h1 == set_field(e.hstatus, HSTATUS_SP2V, get_field(e.hstatus, HSTATUS_SPV))
        h2 == set_field(h1, HSTATUS_SP2P, get_field(e.mstatus, SSTATUS_SPP))
    IN  set_field(h2, HSTATUS_SPV, Bool(riscv_cpu_virt_enabled(e)))

\* mutant: hstatus.STL is not written on the way from virt into HS
trap_hs_entry_NoSTL(e, cause) ==
    IF ~riscv_has_ext_RVH(e) THEN e
    ELSE IF trap_to_VS(e, cause) THEN e
    ELSE IF riscv_cpu_virt_enabled(e)
    THEN LET e1 == riscv_cpu_swap_background_regs(e)
             e2 == [e1 EXCEPT !.hstatus = hstatus_on_hs_trap(e1)]
             e4 == riscv_cpu_set_virt_enabled(e2, FALSE)
         IN  riscv_cpu_set_force_hs_excep(e4, FALSE)
    ELSE [e EXCEPT !.hstatus = hstatus_on_hs_trap(e)]

\* S-mode entry under the H extension, before the S-mode CSRs are written
trap_hs_entry(e, cause) ==
    IF ~riscv_has_ext_RVH(e) THEN e
    ELSE IF trap_to_VS(e, cause) THEN e
    ELSE IF riscv_cpu_virt_enabled(e)
    THEN LET e1 == riscv_cpu_swap_background_regs(e)
             e2 == [e1 EXCEPT !.hstatus = hstatus_on_hs_trap(e1)]
             e3 == [e2 EXCEPT !.hstatus =
                        set_field(@, HSTATUS_STL,
                                  Bool(riscv_cpu_force_hs_excep_enabled(e2)))]
             e4 == riscv_cpu_set_virt_enabled(e3, FALSE)
         IN  riscv_cpu_set_force_hs_excep(e4, FALSE)
    ELSE [e EXCEPT !.hstatus = hstatus_on_hs_trap(e)]

\* the interrupt-enable bit saved as xPIE
trap_prior_ie(e, s, xIE) ==
    IF e.priv_ver >= PRIV_VERSION_1_10_0
    THEN get_field(s, xIE)
    ELSE get_field(s, Shl(MSTATUS_UIE, e.priv))

\* mutant: any tvec with bit 0 set is taken as vectored
trap_pc_Bit0(tvec, async, cause) ==
    Add(Shl(Shr(tvec, 2), 2),
        IF async /\ And(tvec, {0}) = {0} THEN Shl(Bits(cause), 2) ELSE Zero)

\* the handler address: vectored only for interrupts with tvec mode 1
trap_pc(tvec, async, cause) ==
    Add(Shl(Shr(tvec, 2), 2),
        IF async /\ And(tvec, {0, 1}) = {0} THEN Shl(Bits(cause), 2) ELSE Zero)

trap_scause(async, cause) == Or(Bits(cause), Shl(Bool(async), TARGET_LONG_BITS - 1))

\* mutant: the interrupt bit of mcause is set for every trap
trap_mcause_AlwaysTop(async, cause) == Or(Bits(cause), Shl({0}, TARGET_LONG_BITS - 1))

trap_mcause(async, cause) == Or(Bits(cause), Not(Shr(AllOnes, IF async THEN 1 ELSE 0)))

trap_s_writeback(e, async, cause, tval) ==
    LET s1 == set_field(e.mstatus, MSTATUS_SPIE, trap_prior_ie(e, e.mstatus, MSTATUS_SIE))
        s2 == set_field(s1, MSTATUS_SPP, Bits(e.priv))
        s3 == set_field(s2, MSTATUS_SIE, Zero)
        e1 == [e EXCEPT !.mstatus = s3,
                        !.scause = trap_scause(async, cause),
                        !.sepc = e.pc,
                        !.sbadaddr = tval,
                        !.pc = trap_pc(e.stvec, async, cause)]
    IN  riscv_cpu_set_mode(e1, PRV_S)

\* M-mode entry under the H extension, before the M-mode CSRs are written
trap_m_entry(e) ==
    IF ~riscv_has_ext_RVH(e) THEN e
    ELSE LET e1 == IF riscv_cpu_virt_enabled(e)
                   THEN riscv_cpu_swap_background_regs(e) ELSE e
             e2 == [e1 EXCEPT !.mstatus =
                        set_field(@, MSTATUS_MPV, Bool(riscv_cpu_virt_enabled(e1)))]
             e3 == [e2 EXCEPT !.mstatus =
                        set_field(@, MSTATUS_MTL,
                                  Bool(riscv_cpu_force_hs_excep_enabled(e2)))]
         IN  riscv_cpu_set_virt_enabled(e3, FALSE)

trap_m_writeback(e, async, cause, tval) ==
    LET s1 == set_field(e.mstatus, MSTATUS_MPIE, trap_prior_ie(e, e.mstatus, MSTATUS_MIE))
        s2 == set_field(s1, MSTATUS_MPP, Bits(e.priv))
        s3 == set_field(s2, MSTATUS_MIE, Zero)
        e1 == [e EXCEPT !.mstatus = s3,
                        !.mcause = trap_mcause(async, cause),
                        !.mepc = e.pc,
                        !.mbadaddr = tval,
                        !.pc = trap_pc(e.mtvec, async, cause)]
    IN  riscv_cpu_set_mode(e1, PRV_M)

riscv_cpu_do_interrupt(e) ==
    LET async == trap_async(e)
        cause == trap_cause(e)
        tval  == trap_tval(e)
        e1 == IF trap_to_S(e)
              THEN trap_s_writeback(trap_hs_entry(e, cause), async, cause, tval)
              ELSE trap_m_writeback(trap_m_entry(e), async, cause, tval)
    IN  [e1 EXCEPT !.exception_index = EXCP_NONE]

\* called with cs->interrupt_request; hard is its CPU_INTERRUPT_HARD bit
riscv_cpu_exec_interrupt(e, hard) ==
    IF hard
    THEN LET r == riscv_cpu_local_irq_pending(e)
         IN  IF r.ret >= 0
             THEN [ret |-> TRUE,
                   env |-> riscv_cpu_do_interrupt(
                             [r.env EXCEPT !.exception_index =
                                 Or(RISCV_EXCP_INT_FLAG, Bits(r.ret))])]
             ELSE [ret |-> FALSE, env |-> r.env]
    ELSE [ret |-> FALSE, env |-> e]

---------------------------------------------------------------------------
(* Common state                                                            *)

\* the hart after reset: priv = M, interrupts disabled, nothing pending
HartReset ==
    [priv |-> PRV_M, pc |-> {12}, badaddr |-> Zero, load_res |-> AllOnes,
     mstatus |-> Zero, mie |-> Zero, mip |-> Zero, mideleg |-> Zero,
     medeleg |-> Zero, mtvec |-> Zero, mepc |-> Zero, mcause |-> Zero,
     mbadaddr |-> Zero, miclaim |-> Zero,
     stvec |-> Zero, sepc |-> Zero, scause |-> Zero, sbadaddr |-> Zero,
     sscratch |-> Zero, satp |-> Zero, sptbr |-> Zero,
     hstatus |-> Zero, hedeleg |-> Zero, hideleg |-> Zero, hgatp |-> Zero,
     vsstatus |-> Zero, vsie |-> Zero, vsip |-> Zero, vstvec |-> Zero,
     vsepc |-> Zero, vscause |-> Zero, vstval |-> Zero, vsscratch |-> Zero,
     vsatp |-> Zero,
     virt |-> Zero, rvh |-> FALSE, mmu |-> TRUE, pmp |-> FALSE, pmp_denied |-> {},
     priv_ver |-> PRIV_VERSION_1_10_0,
     exception_index |-> EXCP_NONE, work |-> <<>>, tlb |-> {},
     interrupt_hard |-> FALSE]

\* the supervisor registers and their shadows hold distinguishable values
HartProgrammed ==
    [HartReset EXCEPT
        !.pc = {2, 12, 31}, !.badaddr = {12, 13}, !.load_res = {6, 12},
        !.mtvec = {8}, !.stvec = {9}, !.vstvec = {8, 9},
        !.mepc = {4}, !.sepc = {5}, !.vsepc = {6},
        !.mcause = {1}, !.scause = {2}, !.vscause = {0, 1},
        !.mbadaddr = {16}, !.sbadaddr = {17}, !.vstval = {18},
        !.sscratch = {20}, !.vsscratch = {21},
        !.satp = {63, 3}, !.vsatp = {63, 4},
        !.mie = {1, 3, 5}, !.vsie = {9}, !.mip = {5, 7}, !.vsip = {1}]

\* the virt word is only ever written when the H extension is present
HartOk(e) == e.rvh \/ e.virt = Zero

NoOp == [name |-> "none"]

IdleThreads == <<>>

\* no translation is running; the locals and results of the last one are kept
IdleWalk ==
    [pc |-> "idle", addr |-> Zero, access_type |-> 0, mmu_idx |-> 0, probe |-> FALSE,
     base |-> Zero, ptshift |-> 0, i |-> 0, pte |-> Zero, pte_addr |-> Zero,
     reads |-> <<>>, restarts |-> 0, ret |-> 0, physical |-> Zero, prot |-> Zero,
     filled |-> FALSE, env0 |-> 0,
     caller |-> "tlb_fill", gpa_ret |-> 0, cas |-> 0, debug_ret |-> Zero,
     prev |-> [valid |-> FALSE]]

---------------------------------------------------------------------------
(* Spec: the trap dispatcher entered from every kind of hart state         *)

MaxSteps == 1

\* register values a guest may have programmed before the trap
TrapMstatus == {Zero, MSTATUS_SIE \cup MSTATUS_SPP, MSTATUS_MIE,
                MSTATUS_UIE \cup MSTATUS_SIE \cup MSTATUS_MPP \cup MSTATUS_MXR}

\* the shadow differs from mstatus in SIE and SPP
TrapVsstatus(ms) ==
    IF And(ms, MSTATUS_SIE) = Zero
    THEN MSTATUS_SIE \cup MSTATUS_SPP \cup MSTATUS_FS
    ELSE MSTATUS_UIE

TrapDeleg == {Zero, {1, 8, 10, 15}, {0, 5, 9, 13}}

TrapHdeleg == {Zero, {0, 1, 5, 8, 10, 13, 15}}

TvecMode == {Zero, {0}, {1}, {0, 1}}

TrapHarts ==
    {[HartProgrammed EXCEPT
        !.priv = p, !.rvh = h, !.virt = v, !.priv_ver = ver,
        !.mstatus = ms, !.vsstatus = TrapVsstatus(ms),
        !.medeleg = d, !.mideleg = And(d, sip_mask),
        !.hedeleg = hd, !.hideleg = And(hd, sip_mask),
        !.mtvec = @ \cup m, !.stvec = @ \cup m, !.vstvec = @ \cup m,
        !.hstatus = IF ms = Zero THEN HSTATUS_SPV ELSE HSTATUS_SP2P] :
     p \in {PRV_U, PRV_S, PRV_M},
     h \in BOOLEAN,
     v \in SUBSET (VIRT_MODE_MASK \cup FORCE_HS_EXCEP_MASK),
     ver \in {PRIV_VERSION_1_09_1, PRIV_VERSION_1_10_0},
     ms \in TrapMstatus, d \in TrapDeleg, hd \in TrapHdeleg, m \in TvecMode}

Quiet ==
    /\ thr = IdleThreads
    /\ hist = <<>>
    /\ wk = IdleWalk
    /\ mem = <<>>
    /\ writes = 0

Init ==
    /\ env \in {e \in TrapHarts : HartOk(e)}
    /\ pre = env
    /\ op = NoOp
    /\ steps = 0
    /\ Quiet

SyncCauses == {0, 2, 8, 13, 15}

AsyncCauses == {1, 5, 9}

\* a caller sets cs->exception_index: the running code raising an exception,
\* or riscv_cpu_exec_interrupt having picked an interrupt
Raise(c, async) ==
    /\ steps < MaxSteps
    /\ env.exception_index = EXCP_NONE
    /\ env' = [env EXCEPT !.exception_index =
                  IF async THEN Or(RISCV_EXCP_INT_FLAG, Bits(c)) ELSE Bits(c)]
    /\ pre' = env
    /\ op' = [name |-> "raise"]
    /\ steps' = steps + 1
    /\ UNCHANGED <<thr, hist, wk, mem, writes>>

DoInterrupt ==
    /\ env.exception_index # EXCP_NONE
    /\ wk.pc = "idle"
    /\ env' = riscv_cpu_do_interrupt(env)
    /\ pre' = env
    /\ op' = [name |-> "do_interrupt"]
    /\ UNCHANGED <<steps, thr, hist, wk, mem, writes>>

Next ==
    \/ \E c \in SyncCauses : Raise(c, FALSE)
    \/ \E c \in AsyncCauses : Raise(c, TRUE)
    \/ DoInterrupt

Spec == Init /\ [][Next]_vars

TrapDone == op.name = "do_interrupt"

---------------------------------------------------------------------------
(* Properties of the trap dispatcher (under Spec)                          *)

VirtOn(e) == e.rvh /\ 0 \in e.virt

ForceHS(e) == e.rvh /\ 1 \in e.virt

PreAsync == 31 \in pre.exception_index

PreCode == Val(pre.exception_index \ {31})

\* the cause the architecture gives an ecall, by the mode it was made in
RefinedCause ==
    IF ~PreAsync /\ PreCode = 8
    THEN CASE pre.priv = PRV_M -> 11
           [] pre.priv = PRV_S /\ VirtOn(pre) -> 10
           [] pre.priv = PRV_S /\ ~VirtOn(pre) -> 9
           [] OTHER -> 8
    ELSE PreCode

CauseField(reg) == reg \ {TARGET_LONG_BITS - 1}

TvecBase(tvec) == tvec \ {0, 1}

\* the M-mode effects the claim lists, for cause code c
C1_MEffects(c, mpie) ==
    /\ env.mepc = pre.pc
    /\ CauseField(env.mcause) = Bits(c)
    /\ (TARGET_LONG_BITS - 1) \notin env.mcause
    /\ get_field(env.mstatus, MSTATUS_MPP) = Bits(pre.priv)
    /\ (And(env.mstatus, MSTATUS_MPIE) # Zero) = mpie
    /\ And(env.mstatus, MSTATUS_MIE) = Zero
    /\ env.priv = PRV_M
    /\ env.pc = TvecBase(pre.mtvec)

\* C1 as claimed: a synchronous cause c <= 15 that the dispatcher does not hand
\* to S-mode leaves mepc, mcause = c, MPP, MPIE = pre.MIE, MIE = 0, priv = M
\* and pc = mtvec & ~3, for every c (ecall included) and every privilege
C1_Original ==
    (TrapDone /\ ~PreAsync /\ PreCode <= 15 /\ ~trap_to_S(pre))
        => C1_MEffects(PreCode, And(pre.mstatus, MSTATUS_MIE) # Zero)

\* the interrupt-enable bit the code saves: MIE from version 1.10 on, and on
\* legacy versions the enable bit of the mode trapped from (UIE << priv), read
\* after a virtualised hart's supervisor bits were swapped back
C1_SavedIE ==
    IF pre.priv_ver >= PRIV_VERSION_1_10_0 \/ pre.priv = PRV_M
    THEN And(pre.mstatus, MSTATUS_MIE) # Zero
    ELSE IF pre.priv = PRV_U THEN And(pre.mstatus, MSTATUS_UIE) # Zero
    ELSE IF VirtOn(pre) THEN And(pre.vsstatus, MSTATUS_SIE) # Zero
    ELSE And(pre.mstatus, MSTATUS_SIE) # Zero

\* C1 (amended): for a synchronous cause c <= 15 whose ecall-refined cause is
\* not delegated (priv = M, or its medeleg bit clear), the post-state has
\* mepc = pre.pc, mcause = the refined cause with the interrupt bit clear,
\* MPP = pre.priv, MPIE = the saved enable bit, MIE = 0, priv = M and
\* pc = mtvec & ~3
C1_TrapToM ==
    (TrapDone /\ ~PreAsync /\ PreCode <= 15 /\
     ~(pre.priv <= PRV_S /\ RefinedCause \in pre.medeleg))
        => C1_MEffects(RefinedCause, C1_SavedIE)

\* an ecall made in M-mode has been taken to M-mode
C1_Witness ==
    TrapDone /\ ~PreAsync /\ PreCode = 8 /\ pre.priv = PRV_M /\ env.priv = PRV_M

\* the cause register the trap wrote
WrittenCause == IF env.priv = PRV_S THEN env.scause ELSE env.mcause

\* C8: a synchronous U_ECALL is written (and looked up for delegation) as
\* M_ECALL from M, VS_ECALL from S with virt on, HS_ECALL from S with virt off
\* and U_ECALL from U; every other cause is written as it was raised
C8_EcallRefinement ==
    TrapDone =>
        /\ CauseField(WrittenCause) = Bits(RefinedCause)
        /\ (env.priv = PRV_S) = (pre.priv <= PRV_S /\
               RefinedCause \in (IF PreAsync THEN pre.mideleg ELSE pre.medeleg))
        /\ (PreAsync \/ PreCode # 8) => RefinedCause = PreCode

\* an ecall made in S-mode with virt on has been dispatched
C8_Witness ==
    TrapDone /\ ~PreAsync /\ PreCode = 8 /\ pre.priv = PRV_S /\ VirtOn(pre)
        /\ CauseField(WrittenCause) = Bits(10)

\* the trap is taken from virt into HS: delegated to S, not delegated further
C7_Case ==
    /\ TrapDone
    /\ VirtOn(pre) /\ ~ForceHS(pre)
    /\ pre.priv <= PRV_S
    /\ RefinedCause \in (IF PreAsync THEN pre.mideleg ELSE pre.medeleg)
    /\ RefinedCause \notin (IF PreAsync THEN pre.hideleg ELSE pre.hedeleg)

\* what the claim and the code agree on: the swap, SPV, virt off, and the
\* S-mode writeback landing in the host-supervisor registers
C7_Common ==
    /\ env.vsepc = pre.sepc /\ env.vscause = pre.scause
    /\ env.vstval = pre.sbadaddr /\ env.vstvec = pre.stvec
    /\ env.vsscratch = pre.sscratch /\ env.vsatp = pre.satp
    /\ env.vsstatus = And(pre.mstatus, mstatus_mask)
    /\ env.vsie = And(pre.mie, sie_mask)
    /\ env.stvec = pre.vstvec /\ env.sscratch = pre.vsscratch
    /\ env.satp = pre.vsatp
    /\ And(env.hstatus, HSTATUS_SPV) # Zero
    /\ ~VirtOn(env)
    /\ env.sepc = pre.pc
    /\ CauseField(env.scause) = Bits(RefinedCause)
    /\ ((TARGET_LONG_BITS - 1) \in env.scause) = PreAsync
    /\ env.sbadaddr = (IF ~PreAsync /\ PreCode \in {0, 1, 4, 5, 6, 7, 12, 13, 15}
                       THEN pre.badaddr ELSE Zero)
    /\ get_field(env.mstatus, MSTATUS_SPP) = Bits(pre.priv)
    /\ And(env.mstatus, MSTATUS_SIE) = Zero
    /\ (pre.priv_ver >= PRIV_VERSION_1_10_0) =>
           (And(env.mstatus, MSTATUS_SPIE) # Zero) = (And(pre.vsstatus, MSTATUS_SIE) # Zero)
    /\ env.pc = Add(TvecBase(pre.vstvec),
                    IF PreAsync /\ And(pre.vstvec, {0, 1}) = {0}
                    THEN Shl(Bits(RefinedCause), 2) ELSE Zero)
    /\ env.priv = PRV_S

\* C7 as claimed: SP2P is the SPP of the pre-trap mstatus
C7_Original ==
    C7_Case => (C7_Common /\
                (And(env.hstatus, HSTATUS_SP2P) # Zero) =
                    (And(pre.mstatus, MSTATUS_SPP) # Zero))

\* C7 (amended): a trap from virt into HS swaps the background registers, sets
\* hstatus.SPV, turns virt off and writes the S-mode trap state into the host
\* registers; hstatus.SP2P is the SPP of the host supervisor, which was parked
\* in vsstatus before the trap
C7_TrapIntoHS ==
    C7_Case => (C7_Common /\
                (And(env.hstatus, HSTATUS_SP2P) # Zero) =
                    (And(pre.vsstatus, MSTATUS_SPP) # Zero))

\* such a trap has been taken by a guest whose SPP differs from the host's
C7_Witness ==
    C7_Case /\ And(pre.mstatus, MSTATUS_SPP) # And(pre.vsstatus, MSTATUS_SPP)

\* an S-mode trap entry with the H extension that does not stay in VS
C21_Case ==
    /\ TrapDone /\ pre.rvh
    /\ pre.priv <= PRV_S
    /\ RefinedCause \in (IF PreAsync THEN pre.mideleg ELSE pre.medeleg)
    /\ ~(/\ VirtOn(pre) /\ ~ForceHS(pre)
         /\ RefinedCause \in (IF PreAsync THEN pre.hideleg ELSE pre.hedeleg))

\* what the claim and the code agree on: SPV takes the pre-trap virt state,
\* and STL the pre-trap forceHS flag when the trap comes from virt
C21_Common ==
    /\ env.priv = PRV_S
    /\ (HSTATUS_SPV \subseteq env.hstatus) = VirtOn(pre)
    /\ VirtOn(pre) => (HSTATUS_STL \subseteq env.hstatus) = ForceHS(pre)
    /\ ~VirtOn(pre) => (HSTATUS_STL \subseteq env.hstatus) = (HSTATUS_STL \subseteq pre.hstatus)

\* C21 as claimed: SP2V is the pre-trap virt state, whatever hstatus held
C21_Original ==
    C21_Case => (C21_Common /\ (HSTATUS_SP2V \subseteq env.hstatus) = VirtOn(pre))

\* C21 (amended): on an S-mode trap entry with the H extension that does not
\* stay in VS, hstatus.SP2V takes the pre-trap value of hstatus.SPV, SPV takes
\* the pre-trap virt state, and STL takes the pre-trap forceHS flag when the
\* trap comes from virt and is left alone otherwise
C21_HstatusStack ==
    C21_Case => (C21_Common /\
                 (HSTATUS_SP2V \subseteq env.hstatus) = (HSTATUS_SPV \subseteq pre.hstatus))

\* a trap from virt with forceHS set went into HS while hstatus.SPV was clear:
\* SP2V stays clear, SPV and STL are set
C21_Witness ==
    /\ C21_Case /\ VirtOn(pre) /\ ForceHS(pre)
    /\ And(pre.hstatus, HSTATUS_SPV) = Zero
    /\ And(env.hstatus, HSTATUS_SP2V) = Zero
    /\ HSTATUS_SPV \cup HSTATUS_STL \subseteq env.hstatus

\* the tvec the trap was taken through
C10_Tvec ==
    IF env.priv = PRV_M THEN pre.mtvec
    ELSE IF VirtOn(pre) /\ ~VirtOn(env) THEN pre.vstvec
    ELSE pre.stvec

C10_Vectored == PreAsync /\ And(C10_Tvec, {0, 1}) = {0}

C10_VectoredPc == Add(TvecBase(C10_Tvec), Shl(Bits(RefinedCause), 2))

\* C10 as claimed: pc = base + 4*cause exactly when the trap is an interrupt
\* through a vectored tvec, and pc = base otherwise
C10_Original ==
    TrapDone =>
        /\ (env.pc = C10_VectoredPc) = C10_Vectored
        /\ ~C10_Vectored => env.pc = TvecBase(C10_Tvec)

\* C10 (amended): pc = base + 4*cause when the trap is an interrupt through a
\* tvec of mode 1, and pc = base in every other case; the two coincide for
\* cause 0, so pc = base + 4*cause implies a vectored interrupt only for
\* cause # 0
C10_TrapVector ==
    TrapDone =>
        /\ C10_Vectored => env.pc = C10_VectoredPc
        /\ ~C10_Vectored => env.pc = TvecBase(C10_Tvec)
        /\ (RefinedCause # 0 /\ env.pc = C10_VectoredPc) => C10_Vectored

\* an interrupt has been taken through a vectored stvec, and one through a
\* reserved mode
C10_Witness ==
    TrapDone /\ C10_Vectored /\ env.priv = PRV_S /\ env.pc # TvecBase(C10_Tvec)

\* the delegation register the trap is looked up in
C20_Deleg == IF PreAsync THEN pre.mideleg ELSE pre.medeleg

\* C20: the dispatcher leaves priv = S exactly when the trap was taken at S or
\* below, its refined cause is below XLEN and the bit of that cause is set in
\* mideleg (interrupts) or medeleg (exceptions); otherwise it leaves priv = M.
\* So a trap taken in M-mode stays in M-mode and no trap lowers the privilege
C20_TrapTarget ==
    TrapDone =>
        /\ (env.priv = PRV_S)
              = (pre.priv <= PRV_S /\ RefinedCause < TARGET_LONG_BITS
                 /\ RefinedCause \in C20_Deleg)
        /\ env.priv # PRV_S => env.priv = PRV_M
        /\ pre.priv = PRV_M => env.priv = PRV_M
        /\ env.priv >= pre.priv

\* a load page fault delegated in medeleg was taken in M-mode and stayed there
C20_Witness ==
    /\ TrapDone /\ ~PreAsync
    /\ pre.priv = PRV_M /\ RefinedCause = 13 /\ 13 \in pre.medeleg
    /\ env.priv = PRV_M /\ CauseField(env.mcause) = Bits(13)

---------------------------------------------------------------------------
(* SpecIrq: the interrupt arbiter and riscv_cpu_exec_interrupt             *)

IrqMstatus == {Zero, MSTATUS_MIE, MSTATUS_SIE, MSTATUS_MIE \cup MSTATUS_SIE}

IrqVsstatus == {Zero, MSTATUS_SIE}

IrqMip == {Zero, {1}, {5, 7}, {1, 7, 9}}

IrqMie == {{1, 5, 9}, {7, 9}, {1, 3, 5, 7, 9, 11}}

IrqMideleg == {Zero, {1, 5, 9}}

\* vsip and vsie
IrqVs == {<<Zero, {1, 5, 9}>>, <<{1}, {1}>>, <<{5, 9}, {5, 9}>>}

IrqHarts ==
    {[HartProgrammed EXCEPT
        !.priv = p, !.rvh = hv[1], !.virt = hv[2],
        !.mstatus = ms, !.vsstatus = vs,
        !.mip = ip, !.mie = ie, !.mideleg = dl,
        !.vsip = v[1], !.vsie = v[2]] :
     p \in {PRV_U, PRV_S, PRV_M},
     hv \in {<<FALSE, Zero>>, <<TRUE, Zero>>, <<TRUE, VIRT_MODE_MASK>>},
     ms \in IrqMstatus, vs \in IrqVsstatus,
     ip \in IrqMip, ie \in IrqMie, dl \in IrqMideleg, v \in IrqVs}

InitIrq ==
    /\ env \in IrqHarts
    /\ pre = env
    /\ op = NoOp
    /\ steps = 0
    /\ Quiet

\* the engine calls riscv_cpu_exec_interrupt with its interrupt request word
ExecInterrupt(hard) ==
    /\ steps < MaxSteps
    /\ env.exception_index = EXCP_NONE
    /\ env' = riscv_cpu_exec_interrupt(env, hard).env
    /\ pre' = env
    /\ op' = [name |-> "exec_interrupt", hard |-> hard,
              ret |-> riscv_cpu_exec_interrupt(env, hard).ret,
              irq |-> IF hard THEN riscv_cpu_local_irq_pending(env).ret ELSE -1,
              arb |-> IF hard THEN riscv_cpu_local_irq_pending(env).env ELSE env]
    /\ steps' = steps + 1
    /\ UNCHANGED <<thr, hist, wk, mem, writes>>

NextIrq == \E hard \in BOOLEAN : ExecInterrupt(hard)

SpecIrq == InitIrq /\ [][NextIrq]_vars

IrqDone == op.name = "exec_interrupt"

Lowest(w) == CHOOSE i \in w : \A j \in w : i <= j

\* pending, enabled, not delegated, and M-mode interrupts enabled
C2_MSet ==
    IF pre.priv < 3 \/ (pre.priv = 3 /\ 3 \in pre.mstatus)
    THEN (pre.mip \cap pre.mie) \ pre.mideleg ELSE {}

\* pending, enabled, delegated, and S-mode interrupts enabled
C2_SSet ==
    IF pre.priv < 1 \/ (pre.priv = 1 /\ 1 \in pre.mstatus)
    THEN pre.mip \cap pre.mie \cap pre.mideleg ELSE {}

\* C2: with virt off the arbiter returns NONE iff both gated sets are empty,
\* and exec_interrupt enters a trap exactly when one of them is non-empty and
\* the hard-interrupt request bit is set
C2_InterruptMasking ==
    (IrqDone /\ ~VirtOn(pre)) =>
        /\ op.hard => ((op.irq = -1) = (C2_MSet = {} /\ C2_SSet = {}))
        /\ op.ret = (op.hard /\ (C2_MSet # {} \/ C2_SSet # {}))
        /\ op.ret => /\ env.priv \in {PRV_S, PRV_M}
                     /\ env.pc # pre.pc
                     /\ (env.priv = PRV_M => env.mepc = pre.pc)
                     /\ (env.priv = PRV_S => env.sepc = pre.pc)
        /\ ~op.ret => env = pre

\* an interrupt pending in mip is held back by mstatus.SIE alone, and another
\* is delivered
C2_Witness ==
    /\ IrqDone /\ ~VirtOn(pre) /\ op.hard
    /\ pre.priv = PRV_S /\ pre.mip \cap pre.mie \cap pre.mideleg # {}
    /\ op.irq = -1

\* the pending HS interrupts, gated by the vsie predicate
C9_HSSet ==
    IF VirtOn(pre) /\ (pre.priv < 1 \/ (pre.priv = 1 /\ 1 \in pre.vsstatus))
    THEN pre.vsip \cap pre.vsie ELSE {}

C9_Irqs == C2_MSet \cup C2_SSet

\* C9 as claimed: the arbiter returns the lowest of all eligible interrupts,
\* the HS-pending set and the ordinary set taken together
C9_Original ==
    (IrqDone /\ op.hard /\ C9_HSSet \cup C9_Irqs # {})
        => op.irq = Lowest(C9_HSSet \cup C9_Irqs)

\* C9 (amended): with virt on and a non-empty HS-pending set the arbiter
\* returns the lowest bit of that set, whatever the ordinary set holds;
\* otherwise it returns the lowest bit of the ordinary set
C9_LowestOfChosenSet ==
    (IrqDone /\ op.hard) =>
        /\ C9_HSSet # {} => op.irq = Lowest(C9_HSSet)
        /\ (C9_HSSet = {} /\ C9_Irqs # {}) => op.irq = Lowest(C9_Irqs)

\* both sets are non-empty and the ordinary set holds the lower bit
C9_Witness ==
    /\ IrqDone /\ op.hard
    /\ C9_HSSet # {} /\ C9_Irqs # {}
    /\ Lowest(C9_Irqs) < Lowest(C9_HSSet)
    /\ op.irq = Lowest(C9_HSSet)

\* C18: op.arb is the hart as the arbiter left it.  With virt ON and a
\* non-empty gated HS-pending set the arbiter sets virt.forceHS, changes nothing
\* else and returns the lowest bit of that set; in every other case, a return
\* of NONE included, it leaves the hart, virt word included, as it was
C18_ArbiterFrame ==
    (IrqDone /\ op.hard) =>
        IF C9_HSSet # {}
        THEN /\ op.arb = [pre EXCEPT !.virt = @ \cup FORCE_HS_EXCEP_MASK]
             /\ op.irq = Lowest(C9_HSSet)
        ELSE op.arb = pre

\* the arbiter found an HS interrupt pending with virt ON and set forceHS
C18_Witness ==
    /\ IrqDone /\ op.hard
    /\ VirtOn(pre) /\ ~ForceHS(pre) /\ C9_HSSet # {}
    /\ ForceHS(op.arb) /\ op.arb # pre
    /\ op.irq = Lowest(C9_HSSet)

---------------------------------------------------------------------------
(* SpecSwap: riscv_cpu_swap_background_regs applied repeatedly             *)

MaxSwaps == 2

SwapMstatus == {Zero, MSTATUS_SIE \cup MSTATUS_MIE \cup MSTATUS_FS,
                MSTATUS_SPP \cup MSTATUS_MPP \cup MSTATUS64_UXL \cup MSTATUS_UIE}

\* vsstatus is an XLEN-bit register of its own: it can hold more than sstatus fields
SwapVsstatus == {Zero, MSTATUS_SIE \cup MSTATUS_SUM, MSTATUS_SPP \cup MSTATUS_UIE \cup {63}}

SwapMie == {{1, 3, 5}, {7, 9, 11}}

SwapVsie == {{5}, {1, 9}, {1, 2, 9}}

SwapMip == {Zero, {1, 7}, {5, 9, 11}}

SwapVsip == {Zero, {5}, {1, 2, 9}}

SwapHarts ==
    {[HartProgrammed EXCEPT
        !.rvh = TRUE, !.virt = v, !.priv = PRV_S,
        !.mstatus = ms, !.vsstatus = vs, !.mie = ie, !.vsie = vie,
        !.mip = ip, !.vsip = vip] :
     v \in {Zero, VIRT_MODE_MASK},
     ms \in SwapMstatus, vs \in SwapVsstatus, ie \in SwapMie, vie \in SwapVsie,
     ip \in SwapMip, vip \in SwapVsip}

InitSwap ==
    /\ env \in SwapHarts
    /\ pre = env
    /\ op = NoOp
    /\ steps = 0
    /\ Quiet

\* pre keeps the hart as it was before the first of the swaps
SwapBackgroundRegs ==
    /\ steps < MaxSwaps
    /\ env.rvh
    /\ env' = riscv_cpu_swap_background_regs(env)
    /\ pre' = IF op.name = "swap" THEN pre ELSE env
    /\ op' = [name |-> "swap", n |-> steps + 1]
    /\ steps' = steps + 1
    /\ UNCHANGED <<thr, hist, wk, mem, writes>>

NextSwap == SwapBackgroundRegs

SpecSwap == InitSwap /\ [][NextSwap]_vars

SwappedTwice == op.name = "swap" /\ op.n = 2

\* the registers the claim and the code agree are restored
C6_Restored ==
    /\ env.mstatus = pre.mstatus /\ env.mie = pre.mie
    /\ env.stvec = pre.stvec /\ env.vstvec = pre.vstvec
    /\ env.sscratch = pre.sscratch /\ env.vsscratch = pre.vsscratch
    /\ env.sepc = pre.sepc /\ env.vsepc = pre.vsepc
    /\ env.scause = pre.scause /\ env.vscause = pre.vscause
    /\ env.sbadaddr = pre.sbadaddr /\ env.vstval = pre.vstval
    /\ env.satp = pre.satp /\ env.vsatp = pre.vsatp
    /\ env.mip = pre.mip
    /\ env.vsip = pre.vsip \cap {1, 5, 9}

\* C6 as claimed: two swaps restore every register, vsstatus and vsie
\* included, whatever they held
C6_Original ==
    SwappedTwice => (C6_Restored /\ env.vsstatus = pre.vsstatus /\ env.vsie = pre.vsie)

\* C6 (amended): two swaps restore mstatus, mie, mip and the six scalar pairs;
\* vsstatus, vsie and vsip come back masked to the swapped fields
\* (MXR|SUM|FS|SPP|SPIE|SIE|UXL, SEIE|STIE|SSIE and SEIP|STIP|SSIP)
C6_RoundTrip ==
    SwappedTwice =>
        /\ C6_Restored
        /\ env.vsstatus = pre.vsstatus \cap {1, 5, 8, 13, 14, 18, 19, 32, 33}
        /\ env.vsie = pre.vsie \cap {1, 5, 9}

\* two swaps were applied to a hart whose shadows held bits outside the masks
C6_Witness ==
    /\ SwappedTwice
    /\ pre.vsstatus \ {1, 5, 8, 13, 14, 18, 19, 32, 33} # {}
    /\ pre.vsie \ {1, 5, 9} # {}
    /\ 1 \in pre.vsie
    /\ pre.vsip \ {1, 5, 9} # {}

---------------------------------------------------------------------------
(* SpecMip: riscv_cpu_update_mip called from several threads at once       *)

NThreads == 2

Threads == 1 .. NThreads

\* (mask, value) pairs device models and other harts pass
MipArgs == {<<{1}, {1}>>, <<{5}, {5, 7}>>, <<{1, 5}, Zero>>, <<{7}, {7}>>}

MipStart == {Zero, {1, 9}}

ThreadIdle == [pc |-> "idle", mask |-> Zero, value |-> Zero,
               old |-> Zero, new |-> Zero, cmp |-> Zero]

InitMip ==
    /\ env \in {[HartProgrammed EXCEPT !.mip = m, !.interrupt_hard = m # Zero] :
                   m \in MipStart}
    /\ pre = env
    /\ op = NoOp
    /\ steps = 0
    /\ thr = [t \in Threads |-> ThreadIdle]
    /\ hist = <<>>
    /\ wk = IdleWalk
    /\ mem = <<>>
    /\ writes = 0

\* entry: cmp = atomic_read(&env->mip)
MipCall(t, mask, value) ==
    /\ thr[t].pc = "idle"
    /\ thr' = [thr EXCEPT ![t] = [@ EXCEPT !.pc = "cas", !.mask = mask,
                                           !.value = value, !.cmp = env.mip]]
    /\ UNCHANGED <<env, pre, op, steps, hist, wk, mem, writes>>

\* do { old = cmp; new = ...; cmp = atomic_cmpxchg(&env->mip, old, new); }
\* while (old != cmp);
MipCas(t) ==
    /\ thr[t].pc = "cas"
    /\ LET r == update_mip_cas(env.mip, thr[t].cmp, thr[t].mask, thr[t].value)
           done == thr[t].cmp = r.cmp
       IN  /\ env' = [env EXCEPT !.mip = r.mip]
           /\ thr' = [thr EXCEPT ![t] = [@ EXCEPT !.old = thr[t].cmp, !.new = r.new,
                                                  !.cmp = r.cmp,
                                                  !.pc = IF done THEN "notify" ELSE "cas"]]
           /\ hist' = IF done
                      THEN Append(hist, [t |-> t, mask |-> thr[t].mask,
                                         value |-> thr[t].value, old |-> thr[t].cmp])
                      ELSE hist
    /\ UNCHANGED <<pre, op, steps, wk, mem, writes>>

\* info->new_mip = new; async_run_on_cpu(...); return old;
MipNotify(t) ==
    /\ thr[t].pc = "notify"
    /\ env' = [env EXCEPT !.work = Append(@, thr[t].new)]
    /\ thr' = [thr EXCEPT ![t] = [@ EXCEPT !.pc = "done"]]
    /\ UNCHANGED <<pre, op, steps, hist, wk, mem, writes>>

\* the hart's thread takes the oldest work item off its queue and runs it
MipRunWork ==
    /\ env.work # <<>>
    /\ env' = [riscv_cpu_update_mip_irqs_async(env, Head(env.work))
                  EXCEPT !.work = Tail(env.work)]
    /\ UNCHANGED <<pre, op, steps, thr, hist, wk, mem, writes>>

NextMip ==
    \/ \E t \in Threads, a \in MipArgs : MipCall(t, a[1], a[2])
    \/ \E t \in Threads : MipCas(t)
    \/ \E t \in Threads : MipNotify(t)
    \/ MipRunWork

SpecMip == InitMip /\ [][NextMip]_vars

RECURSIVE C3_Serial(_)
\* mip after the first k updates of hist are applied one after the other
C3_Serial(k) ==
    IF k = 0 THEN pre.mip
    ELSE (C3_Serial(k - 1) \ hist[k].mask) \cup (hist[k].value \cap hist[k].mask)

C3_Returned(t) == thr[t].pc \in {"notify", "done"}

\* C3: the updates take effect in one serial order (the order of hist): mip is
\* the result of applying them in that order, each call returns the value that
\* preceded its own update, every returned call is in the order exactly once,
\* and calls with disjoint masks are all reflected in mip
C3_Linearizable ==
    /\ env.mip = C3_Serial(Len(hist))
    /\ \A k \in 1 .. Len(hist) : hist[k].old = C3_Serial(k - 1)
    /\ \A t \in Threads :
          IF C3_Returned(t)
          THEN \E k \in 1 .. Len(hist) :
                  /\ hist[k].t = t /\ hist[k].old = thr[t].old
                  /\ hist[k].mask = thr[t].mask /\ hist[k].value = thr[t].value
                  /\ \A j \in 1 .. Len(hist) : hist[j].t = t => j = k
          ELSE \A k \in 1 .. Len(hist) : hist[k].t # t
    /\ ((\A t \in Threads : C3_Returned(t)) /\
        (\A t, u \in Threads : t # u => thr[t].mask \cap thr[u].mask = {}))
          => \A t \in Threads : env.mip \cap thr[t].mask = thr[t].value \cap thr[t].mask

\* C14: once every call has returned and every queued work item has run, the
\* hard-interrupt line is raised if and only if mip is non-zero
C14_LineConsistent ==
    ((\A t \in Threads : thr[t].pc = "done") /\ env.work = <<>>)
        => (env.interrupt_hard = (env.mip # Zero))

\* every call has returned, and one of them had to retry its compare-and-swap
C3_Witness ==
    /\ \A t \in Threads : thr[t].pc = "done"
    /\ \E t \in Threads : thr[t].old # pre.mip
    /\ \E t, u \in Threads : t # u /\ thr[t].mask \cap thr[u].mask = {}

---------------------------------------------------------------------------
(* The page-table walker and riscv_cpu_tlb_fill                            *)

PGSHIFT == 12
PTE_PPN_SHIFT == 10

PTE_V == {0}
PTE_R == {1}
PTE_W == {2}
PTE_X == {3}
PTE_U == {4}
PTE_A == {6}
PTE_D == {7}

MMU_DATA_LOAD == 0
MMU_DATA_STORE == 1
MMU_INST_FETCH == 2

PAGE_READ == {0}
PAGE_WRITE == {1}
PAGE_EXEC == {2}

TRANSLATE_SUCCESS == 0
TRANSLATE_FAIL == 1
TRANSLATE_PMP_FAIL == 2

SATP_MODE == 60 .. 63
SATP_PPN == 0 .. 43

VM_1_10_MBARE == 0
VM_1_10_SV32 == 1
VM_1_10_SV39 == 8
VM_1_10_SV48 == 9
VM_1_10_SV57 == 10
VM_1_09_MBARE == 0
VM_1_09_SV32 == 8
VM_1_09_SV39 == 9
VM_1_09_SV48 == 10

\* 2^n - 1 as a word
LowMask(n) == 0 .. (n - 1)

\* the PMP unit's verdict on an access: the hart's PMP configuration denies
\* the page frames listed in pmp_denied
pmp_hart_has_privs(e, addr, size, privs, mode) == Shr(addr, PGSHIFT) \notin e.pmp_denied

\* ldq_phys: memory that holds nothing reads as zero
ldq_phys(m, a) == IF a \in DOMAIN m THEN m[a] ELSE Zero

\* the effective privilege of the access: MPRV redirects M-mode data accesses
walk_mode(e, access_type, mmu_idx) ==
    IF mmu_idx = PRV_M /\ access_type # MMU_INST_FETCH
       /\ get_field(e.mstatus, MSTATUS_MPRV) # Zero
    THEN Val(get_field(e.mstatus, MSTATUS_MPP))
    ELSE mmu_idx

walk_vm(e) ==
    IF e.priv_ver >= PRIV_VERSION_1_10_0
    THEN Val(get_field(e.satp, SATP_MODE))
    ELSE Val(get_field(e.mstatus, MSTATUS_VM))

walk_bare(e) ==
    IF e.priv_ver >= PRIV_VERSION_1_10_0
    THEN walk_vm(e) = VM_1_10_MBARE
    ELSE walk_vm(e) = VM_1_09_MBARE

walk_sv32(e) ==
    IF e.priv_ver >= PRIV_VERSION_1_10_0
    THEN walk_vm(e) = VM_1_10_SV32
    ELSE walk_vm(e) = VM_1_09_SV32

walk_levels(e) ==
    IF e.priv_ver >= PRIV_VERSION_1_10_0
    THEN CASE walk_vm(e) = VM_1_10_SV32 -> 2
           [] walk_vm(e) = VM_1_10_SV39 -> 3
           [] walk_vm(e) = VM_1_10_SV48 -> 4
           [] walk_vm(e) = VM_1_10_SV57 -> 5
    ELSE CASE walk_vm(e) = VM_1_09_SV32 -> 2
           [] walk_vm(e) = VM_1_09_SV39 -> 3
           [] walk_vm(e) = VM_1_09_SV48 -> 4

walk_ptidxbits(e) == IF walk_sv32(e) THEN 10 ELSE 9

\* log2 of ptesize: idx * ptesize is a shift
walk_ptesize_log2(e) == IF walk_sv32(e) THEN 2 ELSE 3

walk_root(e) ==
    IF e.priv_ver >= PRIV_VERSION_1_10_0
    THEN Shl(get_field(e.satp, SATP_PPN), PGSHIFT)
    ELSE Shl(e.sptbr, PGSHIFT)

walk_sum(e) ==
    IF e.priv_ver >= PRIV_VERSION_1_10_0
    THEN get_field(e.mstatus, MSTATUS_SUM) # Zero
    ELSE get_field(e.mstatus, MSTATUS_PUM) = Zero

walk_mxr(e) == get_field(e.mstatus, MSTATUS_MXR) # Zero

\* mutant: M-mode accesses are translated like any other
walk_identity_NoMachine(e, access_type, mmu_idx) ==
    \/ ~e.mmu
    \/ walk_bare(e)

\* the translation is the identity: M-mode, no MMU, or Bare
walk_identity(e, access_type, mmu_idx) ==
    \/ walk_mode(e, access_type, mmu_idx) = PRV_M
    \/ ~e.mmu
    \/ walk_bare(e)

\* mutant: the sign bit of the virtual address is left out of the comparison
walk_canonical_OffByOne(e, addr) ==
    LET va_bits == PGSHIFT + walk_levels(e) * walk_ptidxbits(e)
        mask == LowMask(TARGET_LONG_BITS - va_bits)
        masked_msbs == And(Shr(addr, va_bits), mask)
    IN  masked_msbs = Zero \/ masked_msbs = mask

\* the bits above the translated ones must be all equal
walk_canonical(e, addr) ==
    LET va_bits == PGSHIFT + walk_levels(e) * walk_ptidxbits(e)
        mask == LowMask(TARGET_LONG_BITS - (va_bits - 1))
        masked_msbs == And(Shr(addr, va_bits - 1), mask)
    IN  masked_msbs = Zero \/ masked_msbs = mask

walk_ptshift0(e) == (walk_levels(e) - 1) * walk_ptidxbits(e)

\* a shift by a negative count is undefined: ub is what the build made of it
walk_idx(e, addr, ptshift, ub) ==
    IF PGSHIFT + ptshift >= 0
    THEN And(Shr(addr, PGSHIFT + ptshift), LowMask(walk_ptidxbits(e)))
    ELSE And(ub, LowMask(walk_ptidxbits(e)))

walk_pte_addr(e, base, addr, ptshift, ub) ==
    Add(base, Shl(walk_idx(e, addr, ptshift, ub), walk_ptesize_log2(e)))

\* (1 << ptshift) - 1
walk_ptshift_mask(ptshift, ub) == IF ptshift >= 0 THEN LowMask(ptshift) ELSE ub

\* mutant: a user page is open to every S-mode data access, SUM or not
walk_decode_NoSum(mode, sum, mxr, access_type, ptshift, pte, ub) ==
    LET ppn == Shr(pte, PTE_PPN_SHIFT)
        rwx == And(pte, PTE_R \cup PTE_W \cup PTE_X)
        user == And(pte, PTE_U) # Zero
    IN  IF And(pte, PTE_V) = Zero THEN "fail"
        ELSE IF rwx = Zero THEN "inner"
        ELSE IF rwx = PTE_W THEN "fail"
        ELSE IF rwx = PTE_W \cup PTE_X THEN "fail"
        ELSE IF user /\ mode # PRV_U /\ access_type = MMU_INST_FETCH THEN "fail"
        ELSE IF ~user /\ mode # PRV_S THEN "fail"
        ELSE IF And(ppn, walk_ptshift_mask(ptshift, ub)) # Zero THEN "fail"
        ELSE IF access_type = MMU_DATA_LOAD
                /\ ~(And(pte, PTE_R) # Zero \/ (And(pte, PTE_X) # Zero /\ mxr)) THEN "fail"
        ELSE IF access_type = MMU_DATA_STORE /\ And(pte, PTE_W) = Zero THEN "fail"
        ELSE IF access_type = MMU_INST_FETCH /\ And(pte, PTE_X) = Zero THEN "fail"
        ELSE "leaf"

\* the if-chain that classifies a PTE: "fail", "inner" or "leaf"
walk_decode(mode, sum, mxr, access_type, ptshift, pte, ub) ==
    LET ppn == Shr(pte, PTE_PPN_SHIFT)
        rwx == And(pte, PTE_R \cup PTE_W \cup PTE_X)
        user == And(pte, PTE_U) # Zero
    IN  IF And(pte, PTE_V) = Zero THEN "fail"
        ELSE IF rwx = Zero THEN "inner"
        ELSE IF rwx = PTE_W THEN "fail"
        ELSE IF rwx = PTE_W \cup PTE_X THEN "fail"
        ELSE IF user /\ mode # PRV_U /\ (~sum \/ access_type = MMU_INST_FETCH) THEN "fail"
        ELSE IF ~user /\ mode # PRV_S THEN "fail"
        ELSE IF And(ppn, walk_ptshift_mask(ptshift, ub)) # Zero THEN "fail"
        ELSE IF access_type = MMU_DATA_LOAD
                /\ ~(And(pte, PTE_R) # Zero \/ (And(pte, PTE_X) # Zero /\ mxr)) THEN "fail"
        ELSE IF access_type = MMU_DATA_STORE /\ And(pte, PTE_W) = Zero THEN "fail"
        ELSE IF access_type = MMU_INST_FETCH /\ And(pte, PTE_X) = Zero THEN "fail"
        ELSE "leaf"

\* mutant: the dirty bit is never set
walk_updated_pte_NoDirty(access_type, pte) == Or(pte, PTE_A)

walk_updated_pte(access_type, pte) ==
    Or(Or(pte, PTE_A), IF access_type = MMU_DATA_STORE THEN PTE_D ELSE Zero)

walk_physical(addr, pte, ptshift, ub) ==
    LET ppn == Shr(pte, PTE_PPN_SHIFT)
        vpn == Shr(addr, PGSHIFT)
    IN  Shl(Or(ppn, And(vpn, walk_ptshift_mask(ptshift, ub))), PGSHIFT)

\* mutant: a writable page is entered writable whatever the access was
walk_prot_WriteAlways(mxr, access_type, pte) ==
    Or(Or(IF And(pte, PTE_R) # Zero \/ (And(pte, PTE_X) # Zero /\ mxr)
          THEN PAGE_READ ELSE Zero,
          IF And(pte, PTE_X) # Zero THEN PAGE_EXEC ELSE Zero),
       IF And(pte, PTE_W) # Zero THEN PAGE_WRITE ELSE Zero)

walk_prot(mxr, access_type, pte) ==
    Or(Or(IF And(pte, PTE_R) # Zero \/ (And(pte, PTE_X) # Zero /\ mxr)
          THEN PAGE_READ ELSE Zero,
          IF And(pte, PTE_X) # Zero THEN PAGE_EXEC ELSE Zero),
       IF And(pte, PTE_W) # Zero /\ access_type = MMU_DATA_STORE
       THEN PAGE_WRITE ELSE Zero)

\* mutant: every failed translation is reported as an access fault
raise_mmu_exception_AccessFault(e, address, access_type, pmp_violation, first_stage) ==
    LET e1 == riscv_cpu_set_force_hs_excep(e, ~first_stage)
        excp == CASE access_type = MMU_INST_FETCH -> RISCV_EXCP_INST_ACCESS_FAULT
                  [] access_type = MMU_DATA_LOAD -> RISCV_EXCP_LOAD_ACCESS_FAULT
                  [] access_type = MMU_DATA_STORE -> RISCV_EXCP_STORE_AMO_ACCESS_FAULT
    IN  [e1 EXCEPT !.exception_index = Bits(excp), !.badaddr = address]

raise_mmu_exception(e, address, access_type, pmp_violation, first_stage) ==
    LET page_fault_exceptions ==
            IF first_stage
            THEN /\ e.priv_ver >= PRIV_VERSION_1_10_0
                 /\ Val(get_field(e.satp, SATP_MODE)) # VM_1_10_MBARE
                 /\ ~pmp_violation
            ELSE /\ Val(get_field(e.hgatp, SATP_MODE)) # VM_1_10_MBARE
                 /\ ~pmp_violation
        e1 == riscv_cpu_set_force_hs_excep(e, ~first_stage)
        excp == CASE access_type = MMU_INST_FETCH ->
                       IF page_fault_exceptions THEN RISCV_EXCP_INST_PAGE_FAULT
                       ELSE RISCV_EXCP_INST_ACCESS_FAULT
                  [] access_type = MMU_DATA_LOAD ->
                       IF page_fault_exceptions THEN RISCV_EXCP_LOAD_PAGE_FAULT
                       ELSE RISCV_EXCP_LOAD_ACCESS_FAULT
                  [] access_type = MMU_DATA_STORE ->
                       IF page_fault_exceptions THEN RISCV_EXCP_STORE_PAGE_FAULT
                       ELSE RISCV_EXCP_STORE_AMO_ACCESS_FAULT
    IN  [e1 EXCEPT !.exception_index = Bits(excp), !.badaddr = address]

\* mutant: a failed translation raises whether or not it is a probe
tlb_fill_finish_ProbeRaises(e, address, size, access_type, mmu_idx, probe, ret0, pa, prot) ==
    LET mode == walk_mode(e, access_type, mmu_idx)
        ret == IF e.pmp /\ ret0 = TRANSLATE_SUCCESS
                  /\ ~pmp_hart_has_privs(e, pa, size, access_type, mode)
               THEN TRANSLATE_PMP_FAIL ELSE ret0
    IN  IF ret = TRANSLATE_SUCCESS
        THEN [env |-> [e EXCEPT !.tlb = @ \cup
                          {[vaddr |-> And(address, Not(LowMask(PGSHIFT))),
                            paddr |-> And(pa, Not(LowMask(PGSHIFT))),
                            prot |-> prot, mmu_idx |-> mmu_idx]}],
              ret |-> TRUE]
        ELSE [env |-> raise_mmu_exception(e, address, access_type,
                                          ret = TRANSLATE_PMP_FAIL, TRUE),
              ret |-> FALSE]

\* riscv_cpu_tlb_fill from the return of get_physical_address on: the PMP check
\* of the translated address, then the TLB entry, the probe's false, or the
\* exception left in cs->exception_index for riscv_cpu_do_interrupt
tlb_fill_finish(e, address, size, access_type, mmu_idx, probe, ret0, pa, prot) ==
    LET mode == walk_mode(e, access_type, mmu_idx)
        ret == IF e.pmp /\ ret0 = TRANSLATE_SUCCESS
                  /\ ~pmp_hart_has_privs(e, pa, size, access_type, mode)
               THEN TRANSLATE_PMP_FAIL ELSE ret0
        pmp_violation == ret = TRANSLATE_PMP_FAIL
    IN  IF ret = TRANSLATE_SUCCESS
        THEN [env |-> [e EXCEPT !.tlb = @ \cup
                          {[vaddr |-> And(address, Not(LowMask(PGSHIFT))),
                            paddr |-> And(pa, Not(LowMask(PGSHIFT))),
                            prot |-> prot, mmu_idx |-> mmu_idx]}],
              ret |-> TRUE]
        ELSE IF probe
        THEN [env |-> e, ret |-> FALSE]
        ELSE [env |-> raise_mmu_exception(e, address, access_type, pmp_violation, TRUE),
              ret |-> FALSE]

\* the PTEs of the read-only table cannot be updated
RomAddrs == {{31, 19, 12, 3}}

memory_region_is_ram(a) == a \notin RomAddrs

mem_store(m, a, v) == [x \in DOMAIN m \cup {a} |-> IF x = a THEN v ELSE m[x]]

---------------------------------------------------------------------------
(* SpecMmu: riscv_cpu_tlb_fill walking page tables that other harts write  *)

MaxWrites == 2

\* what a shift by a negative count may evaluate to
UbWords == {Zero, AllOnes}

\* an Sv39 tree at 0x80080000: a 4K leaf for va 0x1000, nothing for va 0x2000,
\* a 2M leaf (in ROM, D clear) for va 0x200000, a supervisor 1G leaf for va 0x40000000
PteRoot0 == {31, 19}
PteRoot1 == {31, 19, 3}
PteMid0 == {31, 19, 12}
PteMid1 == {31, 19, 12, 3}
PteLeaf1 == {31, 19, 13, 3}

MmuMem ==
    [a \in {PteRoot0, PteRoot1, PteMid0, PteMid1, PteLeaf1} |->
        CASE a = PteRoot0 -> {29, 17, 10, 0}
          [] a = PteRoot1 -> {28, 3, 2, 1, 0}
          [] a = PteMid0 -> {29, 17, 11, 0}
          [] a = PteMid1 -> {29, 20, 6, 4, 3, 2, 1, 0}
          [] a = PteLeaf1 -> {29, 19, 4, 3, 2, 1, 0}]

\* stores of the other harts: accessed bit set by a walker there, the page
\* unmapped, the subtree unmapped, the leaf turned into a pointer
StoreChoices ==
    {<<PteLeaf1, {29, 19, 6, 4, 3, 2, 1, 0}>>, <<PteLeaf1, Zero>>,
     <<PteRoot0, Zero>>, <<PteLeaf1, {29, 17, 10, 0}>>}

\* (address, access type, probe) of the fills
MmuInputs ==
    {<<{12}, MMU_DATA_STORE, FALSE>>, <<{12}, MMU_DATA_LOAD, TRUE>>,
     <<{13}, MMU_DATA_STORE, FALSE>>, <<{13}, MMU_DATA_LOAD, FALSE>>,
     <<{13}, MMU_INST_FETCH, TRUE>>, <<{21}, MMU_DATA_STORE, FALSE>>,
     <<{21}, MMU_INST_FETCH, FALSE>>, <<{30}, MMU_DATA_LOAD, FALSE>>,
     <<{40}, MMU_DATA_STORE, FALSE>>}

\* privilege with the mstatus a guest runs it with
MmuPriv == {<<PRV_U, MSTATUS_SIE>>, <<PRV_S, MSTATUS_SIE \cup MSTATUS_SUM>>,
            <<PRV_M, MSTATUS_MPRV>>, <<PRV_M, Zero>>}

\* privilege version with the paging mode: Sv39 and Bare of 1.10, Sv39 of 1.09.1
MmuPaging ==
    {[priv_ver |-> PRIV_VERSION_1_10_0, satp |-> {63, 19, 7}, vm |-> Zero],
     [priv_ver |-> PRIV_VERSION_1_10_0, satp |-> {19, 7}, vm |-> Zero],
     [priv_ver |-> PRIV_VERSION_1_09_1, satp |-> {63, 19, 7}, vm |-> {27, 24}]}

MmuHarts ==
    {[HartProgrammed EXCEPT
         !.priv = p[1], !.mstatus = Or(p[2], g.vm),
         !.priv_ver = g.priv_ver, !.satp = g.satp, !.sptbr = {19, 7},
         !.medeleg = d, !.stvec = {9, 0},
         !.pmp = pm, !.pmp_denied = IF pm THEN {{19, 7, 1}} ELSE {}] :
       p \in MmuPriv, g \in MmuPaging,
       d \in {Zero, {RISCV_EXCP_LOAD_PAGE_FAULT, RISCV_EXCP_STORE_PAGE_FAULT}},
       pm \in BOOLEAN}

InitMmu ==
    /\ env \in MmuHarts
    /\ pre = env
    /\ op = NoOp
    /\ steps = 0
    /\ thr = IdleThreads
    /\ hist = <<>>
    /\ wk = IdleWalk
    /\ mem = MmuMem
    /\ writes = 0

\* get_physical_address returns ret to riscv_cpu_tlb_fill, which finishes
\* riscv_cpu_get_phys_page_debug from the return of get_physical_address on
get_phys_page_debug_finish(ret, phys_addr) ==
    IF ret # TRANSLATE_SUCCESS THEN AllOnes ELSE phys_addr

WalkReturn(w, ret, pa, prot) ==
    IF w.caller = "debug"
    THEN /\ env' = env
         /\ wk' = [w EXCEPT !.pc = "idle", !.physical = pa, !.prot = prot,
                            !.gpa_ret = ret, !.ret = ret,
                            !.debug_ret = get_phys_page_debug_finish(ret, pa)]
    ELSE LET r == tlb_fill_finish(env, w.addr, 8, w.access_type, w.mmu_idx, w.probe,
                                  ret, pa, prot)
         IN  /\ env' = r.env
             /\ wk' = [w EXCEPT !.pc = "idle", !.physical = pa, !.prot = prot,
                                !.filled = r.ret, !.gpa_ret = ret,
                                !.ret = IF r.ret THEN TRANSLATE_SUCCESS
                                        ELSE IF ret = TRANSLATE_SUCCESS
                                        THEN TRANSLATE_PMP_FAIL ELSE ret]

\* what is kept of a finished translation when the next one starts
WalkSummary(w) ==
    IF op.name = "none" THEN [valid |-> FALSE]
    ELSE [valid |-> TRUE, addr |-> w.addr, access_type |-> w.access_type, mmu_idx |-> w.mmu_idx,
          gpa_ret |-> w.gpa_ret, physical |-> w.physical, prot |-> w.prot,
          pte_addr |-> w.pte_addr, walked |-> w.reads # <<>>,
          mem |-> mem, mstatus |-> env.mstatus]

\* entry of get_physical_address up to its first PTE load, for either caller
WalkStart(address, access_type, probe, caller, prev) ==
    LET mmu_idx == riscv_cpu_mmu_index(env)
        w == [IdleWalk EXCEPT !.addr = address, !.access_type = access_type,
                              !.mmu_idx = mmu_idx, !.probe = probe, !.env0 = env,
                              !.caller = caller, !.prev = prev]
    IN  IF walk_identity(env, access_type, mmu_idx)
        THEN WalkReturn(w, TRANSLATE_SUCCESS, address,
                        PAGE_READ \cup PAGE_WRITE \cup PAGE_EXEC)
        ELSE IF ~walk_canonical(env, address)
        THEN WalkReturn(w, TRANSLATE_FAIL, Zero, Zero)
        ELSE /\ wk' = [w EXCEPT !.pc = "read", !.base = walk_root(env),
                                !.ptshift = walk_ptshift0(env), !.i = 0]
             /\ env' = env

\* riscv_cpu_tlb_fill up to the first PTE load of get_physical_address
TlbFill(address, access_type, probe) ==
    /\ steps < MaxSteps
    /\ wk.pc = "idle"
    /\ env.exception_index = EXCP_NONE
    /\ WalkStart(address, access_type, probe, "tlb_fill", [valid |-> FALSE])
    /\ pre' = env
    /\ op' = [name |-> "tlb_fill"]
    /\ steps' = steps + 1
    /\ UNCHANGED <<thr, hist, mem, writes>>

\* one iteration of the for loop: the PMP check and load of a PTE and its
\* classification, up to the compare-and-swap of a leaf or the return
WalkRead(ub) ==
    /\ wk.pc = "read"
    /\ LET mode == walk_mode(env, wk.access_type, wk.mmu_idx)
           pte_addr == walk_pte_addr(env, wk.base, wk.addr, wk.ptshift, ub)
           pte == ldq_phys(mem, pte_addr)
           w == [wk EXCEPT !.pte = pte, !.pte_addr = pte_addr,
                           !.reads = Append(@, pte_addr)]
           kind == walk_decode(mode, walk_sum(env), walk_mxr(env), wk.access_type,
                               wk.ptshift, pte, ub)
       IN  IF env.pmp /\ ~pmp_hart_has_privs(env, pte_addr, 8, MMU_DATA_LOAD, PRV_S)
           THEN WalkReturn([wk EXCEPT !.pte_addr = pte_addr], TRANSLATE_PMP_FAIL, Zero, Zero)
           ELSE IF kind = "fail"
           THEN WalkReturn(w, TRANSLATE_FAIL, Zero, Zero)
           ELSE IF kind = "inner"
           THEN IF wk.i + 1 < walk_levels(env)
                THEN /\ wk' = [w EXCEPT !.base = Shl(Shr(pte, PTE_PPN_SHIFT), PGSHIFT),
                                        !.i = @ + 1,
                                        !.ptshift = @ - walk_ptidxbits(env)]
                     /\ env' = env
                ELSE WalkReturn(w, TRANSLATE_FAIL, Zero, Zero)
           ELSE IF walk_updated_pte(wk.access_type, pte) # pte
           THEN IF memory_region_is_ram(pte_addr)
                THEN /\ wk' = [w EXCEPT !.pc = "cas"]
                     /\ env' = env
                ELSE WalkReturn(w, TRANSLATE_FAIL, Zero, Zero)
           ELSE WalkReturn(w, TRANSLATE_SUCCESS, walk_physical(wk.addr, pte, wk.ptshift, ub),
                           walk_prot(walk_mxr(env), wk.access_type, pte))
    /\ UNCHANGED <<pre, op, steps, thr, hist, mem, writes>>

\* atomic_cmpxchg(pte_pa, pte, updated_pte): the update, or goto restart
WalkCas(ub) ==
    /\ wk.pc = "cas"
    /\ LET updated_pte == walk_updated_pte(wk.access_type, wk.pte)
           old_pte == ldq_phys(mem, wk.pte_addr)
       IN  IF old_pte # wk.pte
           THEN /\ wk' = [wk EXCEPT !.pc = "read", !.i = 0, !.reads = <<>>,
                                    !.restarts = @ + 1, !.cas = @ + 1]
                /\ UNCHANGED <<env, mem>>
           ELSE /\ mem' = mem_store(mem, wk.pte_addr, updated_pte)
                /\ WalkReturn([wk EXCEPT !.pte = updated_pte, !.cas = @ + 1], TRANSLATE_SUCCESS,
                              walk_physical(wk.addr, updated_pte, wk.ptshift, ub),
                              walk_prot(walk_mxr(env), wk.access_type, updated_pte))
    /\ UNCHANGED <<pre, op, steps, thr, hist, writes>>

\* another hart stores to a page-table entry
OtherHartStore(a, v) ==
    /\ writes < MaxWrites
    /\ ldq_phys(mem, a) # v
    /\ mem' = mem_store(mem, a, v)
    /\ writes' = writes + 1
    /\ UNCHANGED <<env, pre, op, steps, thr, hist, wk>>

NextMmu ==
    \/ \E in \in MmuInputs : TlbFill(in[1], in[2], in[3])
    \/ \E ub \in UbWords : WalkRead(ub)
    \/ \E ub \in UbWords : WalkCas(ub)
    \/ \E s \in StoreChoices : OtherHartStore(s[1], s[2])
    \/ DoInterrupt

SpecMmu == InitMmu /\ [][NextMmu]_vars

\* C4: after a failed compare-and-swap the walk restarts from the root: the
\* next PTE read is at level 0 with base = satp.PPN << PGSHIFT and
\* ptshift = (levels - 1) * ptidxbits, so the first PTE address read after the
\* restart is the root entry of the address
C4_RestartFromRoot ==
    /\ (wk.pc = "read" /\ wk.restarts > 0 /\ wk.i = 0)
          => (wk.base = walk_root(env) /\ wk.ptshift = walk_ptshift0(env))
    /\ (wk.restarts > 0 /\ wk.reads # <<>>)
          => wk.reads[1] = walk_pte_addr(env, walk_root(env), wk.addr,
                                         walk_ptshift0(env), Zero)

\* the trap that follows a failed, non-probe store fill from U-mode with the
\* store page fault delegated
C5_Case ==
    /\ op.name = "do_interrupt"
    /\ wk.pc = "idle" /\ ~wk.probe /\ wk.access_type = MMU_DATA_STORE
    /\ wk.ret = TRANSLATE_FAIL
    /\ wk.env0.priv = PRV_U /\ ~VirtOn(wk.env0)
    /\ wk.env0.priv_ver >= PRIV_VERSION_1_10_0
    /\ Val(get_field(wk.env0.satp, SATP_MODE)) # VM_1_10_MBARE
    /\ RISCV_EXCP_STORE_PAGE_FAULT \in wk.env0.medeleg

\* C5: a non-probe tlb_fill for a store to an unmapped va from U-mode (virt
\* off, version >= 1.10, satp not Bare, store page fault delegated) followed by
\* do_interrupt leaves scause = STORE_PAGE_FAULT without the interrupt bit,
\* sepc = the pre-trap pc, sbadaddr = va, priv = S, pc = stvec & ~3, SPP = U,
\* SPIE = the pre-trap SIE, SIE = 0, and mepc, mcause, mbadaddr as they were
C5_DelegatedStoreFault ==
    C5_Case =>
        /\ env.scause = Bits(RISCV_EXCP_STORE_PAGE_FAULT)
        /\ env.sepc = wk.env0.pc
        /\ env.sbadaddr = wk.addr
        /\ env.priv = PRV_S
        /\ env.pc = wk.env0.stvec \ {0, 1}
        /\ And(env.mstatus, MSTATUS_SPP) = Zero
        /\ (And(env.mstatus, MSTATUS_SPIE) # Zero) = (And(wk.env0.mstatus, MSTATUS_SIE) # Zero)
        /\ And(env.mstatus, MSTATUS_SIE) = Zero
        /\ env.mepc = wk.env0.mepc
        /\ env.mcause = wk.env0.mcause
        /\ env.mbadaddr = wk.env0.mbadaddr
        /\ env.exception_index = EXCP_NONE

\* the walk ended at an entry that is not valid, with SIE set before the trap
C5_Witness ==
    /\ C5_Case
    /\ wk.reads # <<>> /\ And(wk.pte, PTE_V) = Zero
    /\ And(wk.env0.mstatus, MSTATUS_SIE) # Zero
    /\ env.priv = PRV_S

---------------------------------------------------------------------------
(* SpecWalk: translations of riscv_cpu_tlb_fill and of                     *)
(* riscv_cpu_get_phys_page_debug on page tables nobody else writes         *)

WalkPriv == {<<PRV_U, MSTATUS_SIE>>, <<PRV_S, MSTATUS_SIE \cup MSTATUS_SUM>>,
             <<PRV_S, MSTATUS_MXR>>, <<PRV_M, MSTATUS_MPRV>>, <<PRV_M, Zero>>}

\* Sv39, Sv48 and Bare of version 1.10; Sv39 and Bare of version 1.09.1, which
\* reads the mode from mstatus.VM and the root from sptbr
WalkPaging ==
    {[priv_ver |-> PRIV_VERSION_1_10_0, satp |-> {63, 19, 7}, vm |-> Zero],
     [priv_ver |-> PRIV_VERSION_1_10_0, satp |-> {63, 60, 19, 7}, vm |-> Zero],
     [priv_ver |-> PRIV_VERSION_1_10_0, satp |-> {19, 7}, vm |-> Zero],
     [priv_ver |-> PRIV_VERSION_1_09_1, satp |-> Zero, vm |-> {27, 24}],
     [priv_ver |-> PRIV_VERSION_1_09_1, satp |-> {63, 19, 7}, vm |-> Zero]}

\* PMP off, PMP denying the last-level table, PMP denying the 4K page and the
\* physical page 0x1000 that an untranslated access to va 0x1000 lands in
WalkPmp == {<<FALSE, {}>>, <<TRUE, {{19, 7, 1}}>>, <<TRUE, {{19, 9}, {0}}>>}

WalkPlainHarts ==
    {[HartProgrammed EXCEPT
         !.priv = p[1], !.mstatus = Or(p[2], g.vm),
         !.priv_ver = g.priv_ver, !.satp = g.satp, !.sptbr = {19, 7},
         !.medeleg = {RISCV_EXCP_LOAD_PAGE_FAULT, RISCV_EXCP_STORE_PAGE_FAULT},
         !.stvec = {9, 0}, !.pmp = pm[1], !.pmp_denied = pm[2]] :
       p \in WalkPriv, g \in WalkPaging, pm \in WalkPmp}

\* the harts below M-mode once more as guests of a hypervisor, with the
\* force-HS flag the arbiter may have left set
WalkGuestHarts ==
    {[e EXCEPT !.rvh = TRUE, !.virt = VIRT_MODE_MASK \cup FORCE_HS_EXCEP_MASK] :
       e \in {x \in WalkPlainHarts : x.priv # PRV_M /\ x.satp = {63, 19, 7}}}

WalkHarts == WalkPlainHarts \cup WalkGuestHarts

\* mapped and unmapped pages, superpages, and addresses around the canonical
\* boundaries of Sv39 (bit 38) and Sv48 (bit 47)
WalkVas == {{12}, {13}, {21}, {30}, {38}, {40}, (38 .. 63) \cup {12}, 47 .. 63}

WalkProbedVas == {{12}, {13}}

WalkAccess == {MMU_DATA_LOAD, MMU_DATA_STORE, MMU_INST_FETCH}

InitWalk ==
    /\ env \in WalkHarts
    /\ pre = env
    /\ op = NoOp
    /\ steps = 0
    /\ thr = IdleThreads
    /\ hist = <<>>
    /\ wk = IdleWalk
    /\ mem = MmuMem
    /\ writes = 0

\* riscv_cpu_get_phys_page_debug up to the first PTE load
DebugTranslate(addr) ==
    /\ steps < MaxSteps
    /\ wk.pc = "idle"
    /\ env.exception_index = EXCP_NONE
    /\ WalkStart(addr, 0, FALSE, "debug", [valid |-> FALSE])
    /\ pre' = env
    /\ op' = [name |-> "get_phys_page_debug"]
    /\ steps' = steps + 1
    /\ UNCHANGED <<thr, hist, mem, writes>>

NextWalk ==
    \/ \E a \in WalkVas, t \in WalkAccess : TlbFill(a, t, FALSE)
    \/ \E a \in WalkProbedVas, t \in WalkAccess : TlbFill(a, t, TRUE)
    \/ \E a \in WalkVas : DebugTranslate(a)
    \/ \E ub \in UbWords : WalkRead(ub)
    \/ \E ub \in UbWords : WalkCas(ub)
    \/ DoInterrupt

SpecWalk == InitWalk /\ [][NextWalk]_vars

\* a translation was made and has returned
Translated == wk.pc = "idle" /\ op.name # "none"

\* the walker formed no PTE address: no PMP lookup, no load, no compare-and-swap
WalkUntouched == wk.reads = <<>> /\ wk.pte_addr = Zero /\ wk.cas = 0

C11_IsIdentity ==
    /\ wk.gpa_ret = TRANSLATE_SUCCESS
    /\ wk.physical = wk.addr
    /\ wk.prot = PAGE_READ \cup PAGE_WRITE \cup PAGE_EXEC
    /\ WalkUntouched

C11_MachineNoMprv == wk.mmu_idx = PRV_M /\ And(wk.env0.mstatus, MSTATUS_MPRV) = Zero

\* C11 as claimed: M-mode without MPRV, or satp.MODE = Bare, gives the identity
\* on every privilege version
C11_Original ==
    (Translated /\ (C11_MachineNoMprv \/ And(wk.env0.satp, SATP_MODE) = Zero))
        => C11_IsIdentity

\* C11 (amended): the translation is the identity with prot = R|W|X, without a
\* PTE load or a PMP lookup, when the access is made in M-mode without MPRV,
\* when satp.MODE = Bare on version >= 1.10, and when mstatus.VM = Bare on the
\* legacy version (where satp is not read)
C11_Identity ==
    (Translated /\
     \/ C11_MachineNoMprv
     \/ /\ wk.env0.priv_ver >= PRIV_VERSION_1_10_0
        /\ And(wk.env0.satp, SATP_MODE) = Zero
     \/ /\ wk.env0.priv_ver < PRIV_VERSION_1_10_0
        /\ And(wk.env0.mstatus, MSTATUS_VM) = Zero)
        => C11_IsIdentity

\* a legacy hart in U-mode with mstatus.VM = Bare, satp holding a paged mode,
\* translated a non-zero address to itself
C11_Witness ==
    /\ Translated /\ C11_IsIdentity
    /\ wk.env0.priv = PRV_U /\ wk.env0.priv_ver < PRIV_VERSION_1_10_0
    /\ And(wk.env0.satp, SATP_MODE) # Zero
    /\ wk.addr = {21}

\* the privilege the access is made with
EffMode ==
    IF wk.mmu_idx = PRV_M /\ wk.access_type # MMU_INST_FETCH
       /\ And(wk.env0.mstatus, MSTATUS_MPRV) # Zero
    THEN Val(Shr(And(wk.env0.mstatus, MSTATUS_MPP), 11))
    ELSE wk.mmu_idx

\* the paging mode field in effect: satp.MODE, or mstatus.VM on the legacy version
PagingField ==
    IF wk.env0.priv_ver >= PRIV_VERSION_1_10_0
    THEN Val(Shr(And(wk.env0.satp, SATP_MODE), 60))
    ELSE Val(Shr(And(wk.env0.mstatus, MSTATUS_VM), 24))

\* width of the virtual addresses of the paging mode in effect (0: Bare)
C12_VaBits ==
    IF wk.env0.priv_ver >= PRIV_VERSION_1_10_0
    THEN CASE PagingField = 1 -> 32 [] PagingField = 8 -> 39
           [] PagingField = 9 -> 48 [] PagingField = 10 -> 57 [] OTHER -> 0
    ELSE CASE PagingField = 8 -> 32 [] PagingField = 9 -> 39
           [] PagingField = 10 -> 48 [] OTHER -> 0

C12_Paged == Translated /\ EffMode # PRV_M /\ C12_VaBits # 0

C12_HighBits == (C12_VaBits - 1) .. (TARGET_LONG_BITS - 1)

C12_Canonical == wk.addr \cap C12_HighBits \in {{}, C12_HighBits}

\* C12: in a paged mode with an effective mode other than M, an address whose
\* bits [XLEN-1 : va_bits-1] are not all equal is refused with Fail before any
\* PTE is read, and an address whose high bits are all equal goes on to the walk
C12_CanonicalCheck ==
    C12_Paged =>
        /\ ~C12_Canonical => (wk.gpa_ret = TRANSLATE_FAIL /\ WalkUntouched)
        /\ C12_Canonical => wk.pte_addr # Zero

\* Sv39 refused the address 2^38, whose bit 38 differs from the bits above it
C12_Witness ==
    /\ C12_Paged /\ C12_VaBits = 39 /\ wk.addr = {38}
    /\ wk.gpa_ret = TRANSLATE_FAIL /\ WalkUntouched

---------------------------------------------------------------------------
(* SpecAd: the same hart filling its TLB again and again, e.g. after       *)
(* flushes, with nobody else writing the page tables                       *)

MaxFills == 2

AdHarts ==
    {[HartProgrammed EXCEPT
         !.priv = p[1], !.mstatus = p[2], !.satp = {63, 19, 7}, !.sptbr = {19, 7},
         !.medeleg = {RISCV_EXCP_LOAD_PAGE_FAULT, RISCV_EXCP_STORE_PAGE_FAULT},
         !.stvec = {9, 0}] :
       p \in {<<PRV_U, MSTATUS_SIE>>, <<PRV_U, MSTATUS_SIE \cup MSTATUS_MXR>>,
              <<PRV_S, MSTATUS_SIE \cup MSTATUS_SUM>>, <<PRV_M, MSTATUS_MPRV>>}}

\* the permission bits the guest gave the user 4K page: RWX, R, X, RX, RW
AdLeafFlags == {{4, 3, 2, 1, 0}, {4, 1, 0}, {4, 3, 0}, {4, 3, 1, 0}, {4, 2, 1, 0}}

AdMems == {mem_store(MmuMem, PteLeaf1, {29, 19} \cup f) : f \in AdLeafFlags}

\* two addresses of the mapped 4K page, the unmapped page, the two superpages
AdVas == {{12}, {12, 3}, {13}, {21}, {30}}

InitAd ==
    /\ env \in AdHarts
    /\ pre = env
    /\ op = NoOp
    /\ steps = 0
    /\ thr = IdleThreads
    /\ hist = <<>>
    /\ wk = IdleWalk
    /\ mem \in AdMems
    /\ writes = 0

\* one more riscv_cpu_tlb_fill of the hart, up to the first PTE load
Refill(address, access_type) ==
    /\ steps < MaxFills
    /\ wk.pc = "idle"
    /\ env.exception_index = EXCP_NONE
    /\ WalkStart(address, access_type, FALSE, "tlb_fill", WalkSummary(wk))
    /\ pre' = env
    /\ op' = [name |-> "tlb_fill"]
    /\ steps' = steps + 1
    /\ UNCHANGED <<thr, hist, mem, writes>>

NextAd ==
    \/ \E a \in AdVas, t \in WalkAccess : Refill(a, t)
    \/ \E ub \in UbWords : WalkRead(ub)
    \/ \E ub \in UbWords : WalkCas(ub)
    \/ DoInterrupt

SpecAd == InitAd /\ [][NextAd]_vars

\* the translation succeeded through a leaf PTE that lies in RAM
C13_ThroughRamLeaf(t) ==
    t.gpa_ret = TRANSLATE_SUCCESS /\ t.walked /\ t.pte_addr \notin RomAddrs

\* the translation that has just returned repeats the one before it: same
\* page, same access type, the page tables as the first one left them
C13_Repeated ==
    /\ Translated /\ op.name = "tlb_fill" /\ wk.prev.valid
    /\ C13_ThroughRamLeaf(wk.prev)
    /\ Shr(wk.prev.addr, PGSHIFT) = Shr(wk.addr, PGSHIFT)
    /\ wk.prev.access_type = wk.access_type
    /\ wk.prev.mmu_idx = wk.mmu_idx

\* C13: after a translation succeeded through a leaf PTE in RAM, that PTE has A
\* set in guest memory and, for a store, D set; a second translation of the
\* same page with the same access type then makes no compare-and-swap, writes
\* nothing to guest memory and returns the same physical address and prot
C13_AdIdempotent ==
    /\ (Translated /\ op.name = "tlb_fill"
        /\ C13_ThroughRamLeaf([gpa_ret |-> wk.gpa_ret, walked |-> wk.reads # <<>>,
                               pte_addr |-> wk.pte_addr]))
          => /\ PTE_A \subseteq ldq_phys(mem, wk.pte_addr)
             /\ wk.access_type = MMU_DATA_STORE => PTE_D \subseteq ldq_phys(mem, wk.pte_addr)
    /\ C13_Repeated
          => /\ wk.cas = 0
             /\ mem = wk.prev.mem
             /\ wk.gpa_ret = TRANSLATE_SUCCESS
             /\ wk.physical = wk.prev.physical
             /\ wk.prot = wk.prev.prot

\* a store to 0x1008 was translated right after a store to 0x1000 had set A and D
C13_Witness ==
    /\ C13_Repeated
    /\ wk.prev.addr = {12} /\ wk.addr = {12, 3} /\ wk.access_type = MMU_DATA_STORE
    /\ wk.cas = 0 /\ PTE_D \subseteq ldq_phys(mem, wk.pte_addr)
    /\ mem \notin AdMems

---------------------------------------------------------------------------
(* SpecClaim: device models claiming interrupt sources one after another   *)

MaxClaims == 3

\* the masks are uint32_t; the empty mask is a legal argument
ClaimMasks == {Zero, {1}, {5}, {1, 5}, {9}, {5, 9}, {31}}

InitClaim ==
    /\ env \in {HartReset, HartProgrammed}
    /\ pre = env
    /\ op = NoOp
    /\ steps = 0
    /\ Quiet

ClaimInterrupts(interrupts) ==
    LET r == riscv_cpu_claim_interrupts(env, interrupts)
    IN  /\ steps < MaxClaims
        /\ env' = r.env
        /\ pre' = env
        /\ op' = [name |-> "claim_interrupts", interrupts |-> interrupts, ret |-> r.ret]
        /\ hist' = Append(hist, [interrupts |-> interrupts, ret |-> r.ret])
        /\ steps' = steps + 1
        /\ UNCHANGED <<thr, wk, mem, writes>>

NextClaim == \E m \in ClaimMasks : ClaimInterrupts(m)

SpecClaim == InitClaim /\ [][NextClaim]_vars

\* C15: a claim whose mask meets miclaim returns -1 and changes nothing; any
\* other claim returns 0 and adds exactly the bits of the mask to miclaim,
\* leaving the rest of the hart alone; so miclaim only grows and no interrupt
\* bit is part of two successful claims
C15_ExclusiveClaim ==
    /\ op.name = "claim_interrupts"
          => /\ IF And(pre.miclaim, op.interrupts) # Zero
                THEN op.ret = -1 /\ env = pre
                ELSE /\ op.ret = 0
                     /\ env = [pre EXCEPT !.miclaim = pre.miclaim \cup op.interrupts]
             /\ pre.miclaim \subseteq env.miclaim
    /\ \A i, j \in 1 .. Len(hist) :
          (i < j /\ hist[i].ret = 0 /\ hist[j].ret = 0)
              => hist[i].interrupts \cap hist[j].interrupts = {}
    /\ env.miclaim = UNION {hist[i].interrupts : i \in {k \in 1 .. Len(hist) : hist[k].ret = 0}}

\* a claim of {5} succeeded, a claim of {5, 9} was then refused, and {9} was
\* still free to be claimed afterwards
C15_Witness ==
    /\ Len(hist) = 3
    /\ hist[1] = [interrupts |-> {5}, ret |-> 0]
    /\ hist[2] = [interrupts |-> {5, 9}, ret |-> -1]
    /\ hist[3] = [interrupts |-> {9}, ret |-> 0]
    /\ env.miclaim = {5, 9}

---------------------------------------------------------------------------
(* SpecMode: privilege changes and trap entries following one another      *)

MaxCalls == 3

\* newpriv is a target_ulong: the four encodings and one value above PRV_M
ModePrivs == 0 .. 4

ModeCauses == {<<2, FALSE>>, <<8, FALSE>>, <<5, TRUE>>}

ModeReservation == {6, 12}

\* the hart after reset, with and without traps delegated to S-mode
ModeHarts ==
    {[HartReset EXCEPT !.rvh = h, !.medeleg = d, !.mideleg = And(d, sip_mask)] :
     h \in BOOLEAN, d \in {Zero, {5, 8, 9}}}

InitMode ==
    /\ env \in ModeHarts
    /\ pre = env
    /\ op = NoOp
    /\ steps = 0
    /\ Quiet

\* a request above PRV_M stops the program at g_assert_not_reached, before
\* anything is stored
SetMode(newpriv) ==
    /\ steps < MaxCalls
    /\ IF newpriv > PRV_M
       THEN /\ env' = env
            /\ op' = [name |-> "abort", newpriv |-> newpriv]
       ELSE /\ env' = riscv_cpu_set_mode(env, newpriv)
            /\ op' = [name |-> "set_mode", newpriv |-> newpriv]
    /\ pre' = env
    /\ steps' = steps + 1
    /\ UNCHANGED <<thr, hist, wk, mem, writes>>

\* an exception or interrupt is raised and the dispatcher enters the trap
TrapEntry(c, async) ==
    /\ steps < MaxCalls
    /\ env' = riscv_cpu_do_interrupt(
                  [env EXCEPT !.exception_index =
                      IF async THEN Or(RISCV_EXCP_INT_FLAG, Bits(c)) ELSE Bits(c)])
    /\ pre' = env
    /\ op' = [name |-> "trap"]
    /\ steps' = steps + 1
    /\ UNCHANGED <<thr, hist, wk, mem, writes>>

\* the running code places a load reservation (lr.w / lr.d)
LoadReserved ==
    /\ env.load_res = AllOnes
    /\ env' = [env EXCEPT !.load_res = ModeReservation]
    /\ pre' = env
    /\ op' = [name |-> "lr"]
    /\ UNCHANGED <<steps, thr, hist, wk, mem, writes>>

NextMode ==
    /\ op.name # "abort"
    /\ \/ \E p \in ModePrivs : SetMode(p)
       \/ \E c \in ModeCauses : TrapEntry(c[1], c[2])
       \/ LoadReserved

SpecMode == InitMode /\ [][NextMode]_vars

\* C16: priv is always U, S or M; set_mode stores the requested privilege, H as
\* U, and a request above M stops the program with the hart untouched; right
\* after every set_mode and every trap entry load_res is -1, also when the
\* privilege did not change
C16_PrivAndReservation ==
    /\ env.priv \in {PRV_U, PRV_S, PRV_M}
    /\ op.name = "set_mode"
          => /\ op.newpriv <= PRV_M
             /\ env = [pre EXCEPT !.priv = IF op.newpriv = PRV_H THEN PRV_U ELSE op.newpriv,
                                  !.load_res = AllOnes]
    /\ op.name = "abort" => (op.newpriv > PRV_M /\ env = pre)
    /\ op.name = "trap" => (env.load_res = AllOnes /\ env.priv \in {PRV_S, PRV_M})

\* H was requested in U-mode while a reservation was held: priv stays U and the
\* reservation is gone
C16_Witness ==
    /\ op.name = "set_mode" /\ op.newpriv = PRV_H
    /\ pre.priv = PRV_U /\ pre.load_res = ModeReservation
    /\ env.priv = PRV_U /\ env.load_res = AllOnes

---------------------------------------------------------------------------
(* Probe and debug translations (under SpecWalk)                           *)

\* a probing riscv_cpu_tlb_fill is running or has just returned
C17_Probing == op.name = "tlb_fill" /\ wk.probe

\* riscv_cpu_get_phys_page_debug is running or has just returned
C17_Debugging == op.name = "get_phys_page_debug"

\* C17: a probing riscv_cpu_tlb_fill whose translation fails returns false and
\* leaves the hart as it found it: no exception pending for the dispatcher, no
\* TLB entry, badaddr, forceHS, pc, priv and the trap CSRs untouched;
\* riscv_cpu_get_phys_page_debug never changes the hart and returns -1 when
\* the translation fails
C17_ProbeNeverRaises ==
    /\ (C17_Probing /\ ~(wk.pc = "idle" /\ wk.ret = TRANSLATE_SUCCESS))
          => /\ env = wk.env0
             /\ env.exception_index = EXCP_NONE
             /\ ~ENABLED DoInterrupt
             /\ wk.pc = "idle" => ~wk.filled
    /\ C17_Debugging
          => /\ env = wk.env0
             /\ (wk.pc = "idle" /\ wk.gpa_ret # TRANSLATE_SUCCESS) => wk.debug_ret = AllOnes
             /\ (wk.pc = "idle" /\ wk.gpa_ret = TRANSLATE_SUCCESS) => wk.debug_ret = wk.physical

\* a probe translated through the page table and was then refused by the PMP
\* check of the translated address
C17_Witness ==
    /\ C17_Probing /\ wk.pc = "idle"
    /\ wk.gpa_ret = TRANSLATE_SUCCESS /\ wk.ret = TRANSLATE_PMP_FAIL
    /\ wk.reads # <<>> /\ ~wk.filled
    /\ env = wk.env0

---------------------------------------------------------------------------
(* Permissions of a translation (under SpecAd)                             *)

\* riscv_cpu_tlb_fill has returned from a translation that succeeded through
\* a leaf PTE; wk.pte is that PTE as the walker used it
C19_ThroughLeaf ==
    /\ Translated /\ op.name = "tlb_fill"
    /\ wk.gpa_ret = TRANSLATE_SUCCESS /\ wk.reads # <<>>

\* C19: the prot of a successful translation through a leaf PTE holds Read iff
\* R or (X and mstatus.MXR), Exec iff X, Write iff W and the access is a store;
\* a load or fetch never gets Write, and Write is only returned for a PTE with
\* D set, in the walker's copy and in guest memory
C19_ProtProjection ==
    C19_ThroughLeaf =>
        /\ (PAGE_READ \subseteq wk.prot)
              = (1 \in wk.pte \/ (3 \in wk.pte /\ 19 \in env.mstatus))
        /\ (PAGE_EXEC \subseteq wk.prot) = (3 \in wk.pte)
        /\ (PAGE_WRITE \subseteq wk.prot)
              = (2 \in wk.pte /\ wk.access_type = MMU_DATA_STORE)
        /\ wk.access_type # MMU_DATA_STORE => And(wk.prot, PAGE_WRITE) = Zero
        /\ PAGE_WRITE \subseteq wk.prot
              => (7 \in wk.pte /\ 7 \in ldq_phys(mem, wk.pte_addr))
        /\ wk.filled => \E t \in env.tlb : t.prot = wk.prot /\ t.mmu_idx = wk.mmu_idx

\* a load from an execute-only page was let through by mstatus.MXR: the entry
\* is readable and executable, not writable
C19_Witness ==
    /\ C19_ThroughLeaf
    /\ wk.access_type = MMU_DATA_LOAD
    /\ 1 \notin wk.pte /\ 3 \in wk.pte /\ 19 \in env.mstatus
    /\ wk.prot = PAGE_READ \cup PAGE_EXEC

---------------------------------------------------------------------------
(* Fault classification (under SpecWalk)                                   *)

\* a riscv_cpu_tlb_fill that was no probe has failed and raised its exception
C22_Case ==
    /\ Translated /\ op.name = "tlb_fill"
    /\ ~wk.probe /\ wk.ret # TRANSLATE_SUCCESS

\* the walker or the final PMP check refused the access
C22_PmpDenied == wk.ret = TRANSLATE_PMP_FAIL

C22_PageFault ==
    /\ wk.env0.priv_ver >= PRIV_VERSION_1_10_0
    /\ And(wk.env0.satp, SATP_MODE) # Zero
    /\ ~C22_PmpDenied

\* instruction, load and store/AMO page faults and access faults
C22_Code ==
    IF C22_PageFault
    THEN CASE wk.access_type = MMU_INST_FETCH -> 12
           [] wk.access_type = MMU_DATA_LOAD -> 13
           [] wk.access_type = MMU_DATA_STORE -> 15
    ELSE CASE wk.access_type = MMU_INST_FETCH -> 1
           [] wk.access_type = MMU_DATA_LOAD -> 5
           [] wk.access_type = MMU_DATA_STORE -> 7

\* C22: a failed riscv_cpu_tlb_fill that is no probe leaves the page fault of
\* its access type in exception_index iff the version is >= 1.10, satp.MODE is
\* not Bare and no PMP check refused the access, and the access fault of its
\* access type otherwise; badaddr is the address, forceHS is clear, the rest of
\* the hart is as it was; a PMP denial never gives a page fault
C22_FaultClass ==
    C22_Case =>
        /\ env.exception_index = Bits(C22_Code)
        /\ env.badaddr = wk.addr
        /\ ~ForceHS(env)
        /\ env = [wk.env0 EXCEPT !.exception_index = Bits(C22_Code),
                                 !.badaddr = wk.addr,
                                 !.virt = @ \ FORCE_HS_EXCEP_MASK]
        /\ C22_PmpDenied => Val(env.exception_index) \in {1, 5, 7}

\* a guest's store went through the page table and was refused by the PMP
\* check of the translated address: access fault, forceHS cleared
C22_Witness ==
    /\ C22_Case /\ wk.access_type = MMU_DATA_STORE
    /\ wk.gpa_ret = TRANSLATE_SUCCESS /\ C22_PmpDenied
    /\ ForceHS(wk.env0) /\ ~ForceHS(env)
    /\ And(wk.env0.satp, SATP_MODE) # Zero
    /\ env.exception_index = Bits(7)

---------------------------------------------------------------------------
(* SpecLeaf: one page under every permission encoding, accessed from every *)
(* effective mode                                                          *)

\* privilege and mstatus: U, S without and with SUM (PUM on the legacy
\* version), MXR, and M-mode with MPRV and MPP = U or S
LeafModes ==
    {<<PRV_U, Zero>>, <<PRV_U, MSTATUS_MXR>>,
     <<PRV_S, Zero>>, <<PRV_S, MSTATUS_SUM>>, <<PRV_S, MSTATUS_SUM \cup MSTATUS_MXR>>,
     <<PRV_M, MSTATUS_MPRV>>, <<PRV_M, MSTATUS_MPRV \cup {11}>>,
     <<PRV_M, MSTATUS_MPRV \cup {11} \cup MSTATUS_SUM>>}

\* Sv39 of version 1.10 and of version 1.09.1
LeafPaging ==
    {[priv_ver |-> PRIV_VERSION_1_10_0, satp |-> {63, 19, 7}, vm |-> Zero],
     [priv_ver |-> PRIV_VERSION_1_09_1, satp |-> Zero, vm |-> {27, 24}]}

LeafHarts ==
    {[HartProgrammed EXCEPT
         !.priv = p[1], !.mstatus = Or(p[2], g.vm),
         !.priv_ver = g.priv_ver, !.satp = g.satp, !.sptbr = {19, 7},
         !.stvec = {9, 0}] :
       p \in LeafModes, g \in LeafPaging}

\* the low bits of the 4K leaf: user pages R, X, RX, RW, RWX and the reserved
\* W and WX; supervisor pages RWX and R
LeafFlags ==
    {{4, 1, 0}, {4, 3, 0}, {4, 3, 1, 0}, {4, 2, 1, 0}, {4, 3, 2, 1, 0},
     {4, 2, 0}, {4, 3, 2, 0}, {3, 2, 1, 0}, {1, 0}}

LeafMems == {mem_store(MmuMem, PteLeaf1, {29, 19} \cup f) : f \in LeafFlags}

\* the 4K page, the unmapped page, the 2M page whose PTE lies in ROM
LeafVas == {{12}, {13}, {21}}

InitLeaf ==
    /\ env \in LeafHarts
    /\ pre = env
    /\ op = NoOp
    /\ steps = 0
    /\ thr = IdleThreads
    /\ hist = <<>>
    /\ wk = IdleWalk
    /\ mem \in LeafMems
    /\ writes = 0

NextLeaf ==
    \/ \E a \in LeafVas, t \in WalkAccess : TlbFill(a, t, FALSE)
    \/ \E ub \in UbWords : WalkRead(ub)
    \/ \E ub \in UbWords : WalkCas(ub)
    \/ DoInterrupt

SpecLeaf == InitLeaf /\ [][NextLeaf]_vars

\* the walk has returned after reading PTEs; wk.pte is the last one it read
C23_Decided == Translated /\ op.name = "tlb_fill" /\ wk.reads # <<>>

C23_Rwx == wk.pte \cap {1, 2, 3}

\* a valid, aligned leaf with a non-reserved R/W/X encoding
C23_GoodLeaf ==
    /\ 0 \in wk.pte
    /\ C23_Rwx \notin {{}, {2}, {2, 3}}
    /\ {b \in wk.pte : b >= 10 /\ b < 10 + wk.ptshift} = {}

\* (a) the U-bit rule, given the SUM setting
C23_URule(sum) ==
    CASE EffMode = PRV_U -> 4 \in wk.pte
      [] EffMode = PRV_S -> (4 \in wk.pte => (wk.access_type # MMU_INST_FETCH /\ sum))
      [] OTHER -> FALSE

\* (b) the access-type rule
C23_AccessRule ==
    CASE wk.access_type = MMU_DATA_LOAD ->
             1 \in wk.pte \/ (3 \in wk.pte /\ 19 \in wk.env0.mstatus)
      [] wk.access_type = MMU_DATA_STORE -> 2 \in wk.pte
      [] wk.access_type = MMU_INST_FETCH -> 3 \in wk.pte

C23_Granted == wk.gpa_ret = TRANSLATE_SUCCESS

\* a PTE that is invalid or has a reserved encoding never grants
C23_BadNeverGrants ==
    (C23_Decided /\ (0 \notin wk.pte \/ C23_Rwx \in {{2}, {2, 3}})) => ~C23_Granted

\* C23 as claimed: the access is granted exactly when both rules hold, SUM
\* being bit 18 of mstatus
C23_Original ==
    /\ (C23_Decided /\ C23_GoodLeaf)
          => (C23_Granted = (C23_URule(18 \in wk.env0.mstatus) /\ C23_AccessRule))
    /\ C23_BadNeverGrants

\* S-mode may touch user pages: SUM set on version >= 1.10, PUM (the same bit)
\* clear on the legacy version
C23_Sum ==
    IF wk.env0.priv_ver >= PRIV_VERSION_1_10_0
    THEN 18 \in wk.env0.mstatus ELSE 18 \notin wk.env0.mstatus

\* the A and D bits the access needs are set already, or the PTE lies in RAM
C23_AdPossible ==
    \/ wk.pte_addr \notin RomAddrs
    \/ 6 \in wk.pte /\ (wk.access_type = MMU_DATA_STORE => 7 \in wk.pte)

\* C23 (amended): for a valid, aligned leaf with a non-reserved encoding the
\* access is granted exactly when the U-bit rule holds (S-mode data accesses to
\* user pages needing SUM = 1, or PUM = 0 on the legacy version), the
\* access-type rule holds, and the A/D update is possible; invalid and
\* reserved PTEs never grant
C23_LeafDecision ==
    /\ (C23_Decided /\ C23_GoodLeaf)
          => (C23_Granted = (C23_URule(C23_Sum) /\ C23_AccessRule /\ C23_AdPossible))
    /\ C23_BadNeverGrants

\* a store made in M-mode with MPRV and MPP = S reached a writable user page
\* because SUM was set
C23_Witness ==
    /\ C23_Decided /\ C23_GoodLeaf /\ C23_Granted
    /\ wk.mmu_idx = PRV_M /\ EffMode = PRV_S
    /\ wk.access_type = MMU_DATA_STORE
    /\ 4 \in wk.pte /\ C23_Sum
    /\ wk.env0.priv_ver >= PRIV_VERSION_1_10_0

---------------------------------------------------------------------------
(* Termination of the walk (under SpecMmu)                                 *)

\* the walker is inside get_physical_address
C24_Walking == wk.pc \in {"read", "cas"}

\* C24: every pass over the page table, the first and each one restarted
\* after a failed compare-and-swap, reads at most `levels` PTEs, at levels
\* below `levels` and with a level shift that is never negative
C24_BoundedPass ==
    /\ wk.reads # <<>> => Len(wk.reads) <= walk_levels(wk.env0)
    /\ C24_Walking => (wk.i < walk_levels(env) /\ wk.ptshift >= 0)

\* a pass is restarted only after another hart has stored to the page table:
\* the restarts of one call never outnumber those stores
C24_RestartsPaid == wk.restarts <= writes

---------------------------------------------------------------------------
(* SpecVsip: riscv_cpu_swap_background_regs step by step on the hart's     *)
(* thread, while another thread updates vsip atomically                    *)

VsipThreads == {"hart", "other"}

VsipMip == {Zero, {1}, {5, 9}, {1, 7}}

VsipVsip == {Zero, {1}, {5}, {1, 9}}

\* (mask, value) pairs of the other thread's atomic update of vsip
VsipArgs == {<<{1}, {1}>>, <<{5}, {5}>>, <<{1, 9}, Zero>>, <<{9}, {9}>>}

InitVsip ==
    /\ env \in {[HartProgrammed EXCEPT !.rvh = TRUE, !.priv = PRV_S,
                                       !.mip = m, !.vsip = v] :
                   m \in VsipMip, v \in VsipVsip}
    /\ pre = env
    /\ op = NoOp
    /\ steps = 0
    /\ thr = [t \in VsipThreads |-> ThreadIdle]
    /\ hist = <<>>
    /\ wk = IdleWalk
    /\ mem = <<>>
    /\ writes = 0

\* the plain swaps, then tmp = atomic_read(&env->vsip) and, on entry of
\* riscv_cpu_update_mip, cmp = atomic_read(&env->mip)
VsipSwapRead ==
    /\ thr["hart"].pc = "idle"
    /\ env.rvh
    /\ env' = swap_plain_regs(env)
    /\ thr' = [thr EXCEPT !["hart"] = [@ EXCEPT !.pc = "cas", !.mask = U32(sip_mask),
                                                !.value = U32(env.vsip),
                                                !.cmp = env.mip]]
    /\ UNCHANGED <<pre, op, steps, hist, wk, mem, writes>>

\* the compare-and-swap loop of riscv_cpu_update_mip
VsipSwapCas ==
    /\ thr["hart"].pc = "cas"
    /\ LET t == thr["hart"]
           r == update_mip_cas(env.mip, t.cmp, t.mask, t.value)
           done == t.cmp = r.cmp
       IN  /\ env' = [env EXCEPT !.mip = r.mip]
           /\ thr' = [thr EXCEPT !["hart"] = [@ EXCEPT !.old = t.cmp, !.new = r.new,
                                                       !.cmp = r.cmp,
                                                       !.pc = IF done THEN "notify"
                                                              ELSE "cas"]]
    /\ UNCHANGED <<pre, op, steps, hist, wk, mem, writes>>

\* async_run_on_cpu(...); return old;
VsipSwapNotify ==
    /\ thr["hart"].pc = "notify"
    /\ env' = [env EXCEPT !.work = Append(@, thr["hart"].new)]
    /\ thr' = [thr EXCEPT !["hart"] = [@ EXCEPT !.pc = "set"]]
    /\ UNCHANGED <<pre, op, steps, hist, wk, mem, writes>>

\* tmp &= MIP_SSIP | MIP_STIP | MIP_SEIP; atomic_set(&env->vsip, tmp);
VsipSwapSet ==
    /\ thr["hart"].pc = "set"
    /\ env' = [env EXCEPT !.vsip = And(thr["hart"].old, sip_mask)]
    /\ thr' = [thr EXCEPT !["hart"] = [@ EXCEPT !.pc = "done"]]
    /\ op' = [name |-> "swap", n |-> 1]
    /\ UNCHANGED <<pre, steps, hist, wk, mem, writes>>

\* vsip after an atomic read-modify-write with (mask, value)
vsip_atomic_update(vsip, mask, value) == Or(And(vsip, Not(mask)), And(value, mask))

\* the other thread's update of vsip, one indivisible step
VsipAtomicUpdate(mask, value) ==
    /\ thr["other"].pc = "idle"
    /\ env' = [env EXCEPT !.vsip = vsip_atomic_update(@, mask, value)]
    /\ thr' = [thr EXCEPT !["other"] = [@ EXCEPT !.pc = "done", !.mask = mask,
                                                 !.value = value,
                                                 !.old = env.vsip]]
    /\ hist' = Append(hist, thr["hart"].pc)
    /\ UNCHANGED <<pre, op, steps, wk, mem, writes>>

NextVsip ==
    \/ VsipSwapRead
    \/ VsipSwapCas
    \/ VsipSwapNotify
    \/ VsipSwapSet
    \/ \E a \in VsipArgs : VsipAtomicUpdate(a[1], a[2])

SpecVsip == InitVsip /\ [][NextVsip]_vars

\* the swap and the other thread's update have both completed
C25_BothDone == thr["hart"].pc = "done" /\ thr["other"].pc = "done"

\* the other thread's update first, then the swap
C25_UpdateThenSwap ==
    riscv_cpu_swap_background_regs(
        [pre EXCEPT !.vsip = vsip_atomic_update(@, thr["other"].mask,
                                                thr["other"].value)])

\* the swap first, then the other thread's update
C25_SwapThenUpdate ==
    LET e == riscv_cpu_swap_background_regs(pre)
    IN  [e EXCEPT !.vsip = vsip_atomic_update(@, thr["other"].mask,
                                              thr["other"].value)]

\* vsip and the S-mode bits of mip are those of hart e
C25_Same(e) == env.vsip = e.vsip /\ And(env.mip, sip_mask) = And(e.mip, sip_mask)

\* C25: once the swap and a concurrent atomic update of vsip have both
\* completed, vsip and the S-mode bits of mip are what one of the two serial
\* orders leaves: the update is never overwritten
C25_NoLostUpdate ==
    C25_BothDone => (C25_Same(C25_UpdateThenSwap) \/ C25_Same(C25_SwapThenUpdate))

\* the update took effect between the swap's read of vsip and its store
C25_Between == C25_BothDone /\ hist[1] \in {"cas", "notify", "set"}

---------------------------------------------------------------------------
(* The force-HS flag across a trap (under SpecIrq and Spec)                *)

\* riscv_cpu_exec_interrupt has taken an interrupt on a hart that had virt on
C26_Case == IrqDone /\ op.ret /\ VirtOn(pre)

\* C26: riscv_cpu_do_interrupt entered with virt on, the force-HS flag set by
\* the arbiter or clear, exits with the flag clear, whether the trap is handled
\* in VS, in HS or in M-mode
C26_FlagConsumed == C26_Case => ~ForceHS(env)

\* under Spec: the flag is clear after every trap from virt that is not
\* handled in M-mode
C26_ClearedBelowM == (TrapDone /\ VirtOn(pre) /\ env.priv # PRV_M) => ~ForceHS(env)

====
